---- MODULE Spec2Model ----
(***************************************************************************)
(* State-persistence and step-orchestration engine of homelab-setup:       *)
(* the marker store (internal/config/markers.go), legacy marker            *)
(* reconciliation (ensureCanonicalMarker), the step orchestrator           *)
(* (RunStep / RunAll), the configuration file (atomic rewrite, locking of *)
(* Config among goroutines, GetOrDefault) and the dry-run decorator of the *)
(* filesystem (DryRunFileSystem).                                          *)
(*                                                                         *)
(* A marker name is a sequence of tokens.  The characters the code tests   *)
(* for ("/", "\", ".") are tokens of their own, every other token is a     *)
(* run of ordinary characters, and string concatenation is \o.             *)
(***************************************************************************)
EXTENDS Integers, Sequences, FiniteSets, TLC

VARIABLES
    markers,     \* names of the files present in the marker directory
    dirExists,   \* does the marker directory exist
    faults,      \* may a filesystem call of this run fail with an I/O error
    markers0,    \* the files present when the run began
    pc,          \* position of each process in the call it is executing
    arg,         \* argument(s) of the call each process is executing
    ret,         \* value returned by the last call of each process
    idx,         \* ensureCanonicalMarker: index of the legacy alias examined
    wasCreated,  \* ensureCanonicalMarker: result of CreateIfNotExists
    results,     \* ensureCanonicalMarker: values returned so far, per process
    after,       \* ensureCanonicalMarker: marker set at each return, per process
    removals,    \* ensureCanonicalMarker: log of the legacy removals performed
    interactive, \* UI mode of the run: does PromptYesNo ask the user
    run,         \* orchestrator: locals and history of RunAll / RunStep, per process
    cfgFs,       \* config directory: content of the backing file and of the temp file
    cfgData,     \* Config.data, the in-memory map of the running process
    cfgPc,       \* position of the process inside Set / Delete (or "crashed")
    cfgCall,     \* the call in progress: file before it, content it writes, where it crashed
    cfgSeen,     \* what a reader in another process last read from the backing file
    cfgCommitted, \* every content the backing file has held as a whole
    mu,          \* Config.mu: the goroutines holding the read lock and the write lock
    gor,         \* the Config call each goroutine is executing, and its result
    stLoaded,    \* Config.loaded: has the backing file been read into Config.data
    stCalls,     \* number of Config calls started so far
    dryRun,      \* DryRunFileSystem.dryRun
    tree,        \* the filesystem under DryRunFileSystem.fs: entry of each path
    tree0,       \* the filesystem when the run began
    fsCalls,     \* the FileSystem methods the last DryRunFileSystem call delegated to
    uiLog,       \* the [DRY-RUN] lines the last DryRunFileSystem call wrote to the UI
    dryOut,      \* the last DryRunFileSystem call and what it returned
    ledger,      \* the marker names the client created and has not removed since
    cs,          \* ContainerSetup.Run: its position, its locals and what it has done
    sp,          \* Spinner: its fields, its callers and its animation goroutines
    dep          \* RunDeployment: its position, its locals and what it has done

fsVars     == <<markers, dirExists, faults, markers0>>
procVars   == <<pc, arg, ret>>
ensureVars == <<idx, wasCreated, results, after, removals>>
runVars    == <<interactive, run>>
cfgVars    == <<cfgFs, cfgData, cfgPc, cfgCall, cfgSeen, cfgCommitted>>
lockVars   == <<mu, gor, stLoaded, stCalls>>
dryVars    == <<dryRun, tree, tree0, fsCalls, uiLog, dryOut>>
bookVars   == <<ledger>>
csVars     == <<cs>>
spVars     == <<sp>>
depVars    == <<dep>>
laterVars  == <<lockVars, dryVars, bookVars, csVars, spVars, depVars>>
otherVars  == <<cfgVars, laterVars>>
vars       == <<fsVars, procVars, ensureVars, runVars, otherVars>>

----------------------------------------------------------------------------
(* Bounds *)

NumProcs == 3

Procs == 1..NumProcs

----------------------------------------------------------------------------
(* Marker names *)

\* the name of the failure marker of a step
FailedSame(name) == name

Failed(name) == name \o <<"-failed">>

NoError == "nil"

\* validateMarkerName: the error it returns, NoError for a safe name
validateMarkerNameNoDots(name) ==
    IF name = <<>> THEN "empty"
    ELSE IF \E i \in 1..Len(name) : name[i] \in {"/", "\\"} THEN "separator"
    ELSE NoError

validateMarkerName(name) ==
    IF name = <<>> THEN "empty"
    ELSE IF \E i \in 1..Len(name) : name[i] \in {"/", "\\"} THEN "separator"
    ELSE IF name = <<".", ".">> \/ name = <<".">> THEN "dots"
    ELSE NoError

\* outcomes of one filesystem call
IOOutcomes == IF faults THEN {"ok", "eio"} ELSE {"ok"}

----------------------------------------------------------------------------
(* Filesystem primitives on the marker directory.  Each operator returns   *)
(* the new directory state together with the result of the call.           *)

FsResult(m, d, val, err) == [m |-> m, d |-> d, val |-> val, err |-> err]

\* os.MkdirAll(m.dir)
MkdirAll(m, d, io) ==
    IF io = "eio" THEN FsResult(m, d, FALSE, "mkdir") ELSE FsResult(m, TRUE, TRUE, NoError)

\* os.OpenFile(path, O_CREATE|O_EXCL|O_WRONLY): fails with EEXIST on an
\* existing file; CreateIfNotExists maps that to (false, nil)
OpenNoExcl(m, d, name, io) ==
    IF io = "eio" \/ ~d THEN FsResult(m, d, FALSE, "create")
    ELSE FsResult(m \cup {name}, d, TRUE, NoError)

OpenExcl(m, d, name, io) ==
    IF io = "eio" \/ ~d THEN FsResult(m, d, FALSE, "create")
    ELSE IF name \in m THEN FsResult(m, d, FALSE, NoError)
    ELSE FsResult(m \cup {name}, d, TRUE, NoError)

\* os.Create(path): creates or truncates
OsCreateExcl(m, d, name, io) ==
    IF io = "eio" \/ ~d \/ name \in m THEN FsResult(m, d, FALSE, "create")
    ELSE FsResult(m \cup {name}, d, TRUE, NoError)

OsCreate(m, d, name, io) ==
    IF io = "eio" \/ ~d THEN FsResult(m, d, FALSE, "create")
    ELSE FsResult(m \cup {name}, d, TRUE, NoError)

\* os.Stat(path) as used by Exists
OsStat(m, d, name, io) ==
    IF io = "eio" THEN FsResult(m, d, FALSE, "stat")
    ELSE FsResult(m, d, d /\ name \in m, NoError)

\* os.Remove(path) as used by Remove: a missing file is no error
OsRemoveStrict(m, d, name, io) ==
    IF io = "eio" \/ name \notin m THEN FsResult(m, d, FALSE, "remove")
    ELSE FsResult(m \ {name}, d, TRUE, NoError)

OsRemove(m, d, name, io) ==
    IF io = "eio" THEN FsResult(m, d, FALSE, "remove")
    ELSE FsResult(m \ {name}, d, TRUE, NoError)

----------------------------------------------------------------------------
(* Markers methods, each as one sequential call *)

Invalid(m, d, name) == FsResult(m, d, FALSE, validateMarkerName(name))

Create(m, d, name, io) ==
    IF validateMarkerName(name) # NoError THEN Invalid(m, d, name)
    ELSE LET r == MkdirAll(m, d, "ok") IN OsCreate(r.m, r.d, name, io)

CreateIfNotExists(m, d, name, io) ==
    IF validateMarkerName(name) # NoError THEN Invalid(m, d, name)
    ELSE LET r == MkdirAll(m, d, "ok") IN OpenExcl(r.m, r.d, name, io)

Exists(m, d, name, io) ==
    IF validateMarkerName(name) # NoError THEN Invalid(m, d, name)
    ELSE OsStat(m, d, name, io)

Remove(m, d, name, io) ==
    IF validateMarkerName(name) # NoError THEN Invalid(m, d, name)
    ELSE OsRemove(m, d, name, io)

MarkFailedSkipped(m, d, name, io) == FsResult(m, d, TRUE, NoError)

MarkFailedNoSuffix(m, d, name, io) == Create(m, d, name, io)

MarkFailed(m, d, name, io) == Create(m, d, Failed(name), io)

ClearFailureSkipped(m, d, name, io) == FsResult(m, d, TRUE, NoError)

ClearFailureRemovesMarker(m, d, name, io) == Remove(m, d, name, io)

ClearFailure(m, d, name, io) == Remove(m, d, Failed(name), io)

IsFailed(m, d, name, io) == Exists(m, d, Failed(name), io)

StepNotStarted == "NotStarted"
StepCompleted == "Completed"
StepFailed == "Failed"

GetStatusCompletionFirst(m, d, name, io1, io2) ==
    LET f == IsFailed(m, d, name, io1)
        c == Exists(m, d, name, io2)
    IN  IF c.err # NoError THEN [val |-> StepNotStarted, err |-> c.err]
        ELSE IF c.val THEN [val |-> StepCompleted, err |-> NoError]
        ELSE IF f.err # NoError THEN [val |-> StepNotStarted, err |-> f.err]
        ELSE IF f.val THEN [val |-> StepFailed, err |-> NoError]
        ELSE [val |-> StepNotStarted, err |-> NoError]

\* GetStatus: the failure marker is checked first
GetStatus(m, d, name, io1, io2) ==
    LET f == IsFailed(m, d, name, io1)
        c == Exists(m, d, name, io2)
    IN  IF f.err # NoError THEN [val |-> StepNotStarted, err |-> f.err]
        ELSE IF f.val THEN [val |-> StepFailed, err |-> NoError]
        ELSE IF c.err # NoError THEN [val |-> StepNotStarted, err |-> c.err]
        ELSE IF c.val THEN [val |-> StepCompleted, err |-> NoError]
        ELSE [val |-> StepNotStarted, err |-> NoError]

\* RemoveAll: os.RemoveAll of the directory, nothing to do when it is missing
RemoveAll(m, d, io) ==
    IF ~d THEN FsResult(m, d, TRUE, NoError)
    ELSE IF io = "eio" THEN FsResult(m, d, FALSE, "removeall")
    ELSE FsResult({}, FALSE, TRUE, NoError)

\* List: names of the files in the directory, none when it is missing
ListNoDirCheck(m, d, io) ==
    IF io = "eio" \/ ~d THEN FsResult(m, d, {}, "readdir")
    ELSE FsResult(m, d, m, NoError)

List(m, d, io) ==
    IF ~d THEN FsResult(m, d, {}, NoError)
    ELSE IF io = "eio" THEN FsResult(m, d, {}, "readdir")
    ELSE FsResult(m, d, m, NoError)

NoRet == [val |-> FALSE, err |-> "none"]
Ret(val, err) == [val |-> val, err |-> err]

----------------------------------------------------------------------------
(* Concurrent CreateIfNotExists: every process calls it once; the two     *)
(* filesystem calls of one invocation are separate steps.                  *)

CreateNames == {<<"a-complete">>, <<"b-complete">>, <<".", ".", "/", "x">>}

EnsureIdle ==
    /\ idx = [p \in Procs |-> 0]
    /\ wasCreated = [p \in Procs |-> FALSE]
    /\ results = [p \in Procs |-> <<>>]
    /\ after = [p \in Procs |-> <<>>]
    /\ removals = <<>>

\* a file that does not exist, and one holding the given lines
Absent == [exists |-> FALSE, lines |-> <<>>]
File(lines) == [exists |-> TRUE, lines |-> lines]

NoCall ==
    [before |-> Absent, new |-> Absent, data |-> [k \in {} |-> ""], crashAt |-> "none", n |-> 0]

\* a goroutine outside every Config call, and what a call returns
NoOut == [val |-> "", ok |-> FALSE, err |-> NoError]
NoGo == [pc |-> "idle", op |-> "none", key |-> "", value |-> "", out |-> NoOut]

\* sync.RWMutex, zero value
Unlocked == [readers |-> {}, writers |-> {}]

\* no goroutine uses the configuration store
LockIdle ==
    /\ mu = Unlocked
    /\ gor = [p \in Procs |-> NoGo]
    /\ stLoaded = FALSE
    /\ stCalls = 0

\* a path with nothing at it
NoEntry == [kind |-> "none", owner |-> "", perms |-> "", content |-> ""]
NoDryCall == [op |-> "none", path |-> "", ret |-> NoOut, direct |-> NoOut, changed |-> FALSE]

\* no DryRunFileSystem in play
DryIdle ==
    /\ dryRun = FALSE
    /\ tree = [p \in {} |-> NoEntry]
    /\ tree0 = [p \in {} |-> NoEntry]
    /\ fsCalls = {}
    /\ uiLog = {}
    /\ dryOut = NoDryCall

\* no error, as a step body returns it
NoErr == [msg |-> "nil", desc |-> "", flag |-> "", key |-> ""]

\* the callers of the spinner, goroutines of one process
SpCallers == {1, 2}

\* NewSpinner(message): no call made, no animation goroutine started
NoSpinner ==
    [message |-> "m0", active |-> FALSE, mu |-> 0, anim |-> <<>>,
     at |-> [c \in SpCallers |-> "idle"], op |-> [c \in SpCallers |-> "none"],
     text |-> [c \in SpCallers |-> ""], sent |-> [c \in SpCallers |-> FALSE],
     calls |-> 0, starts |-> 0, sends |-> 0, shown |-> ""]

\* RunDeployment has not been called
NoDeploy ==
    [pc |-> "idle", services |-> <<>>, i |-> 0, attempted |-> <<>>, deployed |-> <<>>,
     marked |-> FALSE, err |-> NoErr, calls |-> 0]

\* ContainerSetup.Run has not been called
NoSetup ==
    [pc |-> "idle", selected |-> <<>>, err |-> NoErr, copied |-> FALSE, envFiles |-> FALSE,
     prompts |-> {}, calls |-> 0]

\* nothing but the marker store and the orchestrator in play
LaterIdle ==
    /\ ledger = {}
    /\ cs = NoSetup
    /\ sp = NoSpinner
    /\ dep = NoDeploy

\* no configuration store in play
OthersIdle ==
    /\ LockIdle
    /\ DryIdle
    /\ LaterIdle
    /\ cfgFs = [f \in {"config", "config.tmp"} |-> Absent]
    /\ cfgData = [k \in {} |-> ""]
    /\ cfgPc = "idle"
    /\ cfgCall = NoCall
    /\ cfgSeen = Absent
    /\ cfgCommitted = {Absent}

\* the orchestrator before any invocation
NoRun ==
    [kind |-> "none", cmd |-> "", queue |-> <<>>, step |-> "", err |-> NoError, worked |-> "no",
     skip |-> FALSE, rerun |-> FALSE, prior |-> "", atCall |-> {}, atStep |-> {}, log |-> <<>>, calls |-> 0,
     seen |-> NoError, lost |-> NoError, resumes |-> [step |-> "", skip |-> FALSE]]

RunIdle ==
    /\ interactive = FALSE
    /\ run = [p \in Procs |-> NoRun]

InitCreate ==
    /\ markers \in SUBSET {n \in CreateNames : validateMarkerName(n) = NoError}
    /\ dirExists \in BOOLEAN
    /\ markers # {} => dirExists
    /\ faults = FALSE
    /\ markers0 = markers
    /\ pc = [p \in Procs |-> "idle"]
    /\ arg = [p \in Procs |-> <<>>]
    /\ ret = [p \in Procs |-> NoRet]
    /\ EnsureIdle
    /\ RunIdle
    /\ OthersIdle

\* entry of CreateIfNotExists: validateMarkerName
CineCall(p) ==
    /\ pc[p] = "idle"
    /\ \E name \in CreateNames :
        /\ arg' = [arg EXCEPT ![p] = name]
        /\ IF validateMarkerName(name) # NoError
           THEN /\ pc' = [pc EXCEPT ![p] = "done"]
                /\ ret' = [ret EXCEPT ![p] = Ret(FALSE, validateMarkerName(name))]
           ELSE /\ pc' = [pc EXCEPT ![p] = "mkdir"]
                /\ UNCHANGED ret
    /\ UNCHANGED <<fsVars, ensureVars, runVars, otherVars>>

CineMkdir(p) ==
    /\ pc[p] = "mkdir"
    /\ \E io \in IOOutcomes :
        LET r == MkdirAll(markers, dirExists, io) IN
        /\ dirExists' = r.d
        /\ IF r.err # NoError
           THEN /\ pc' = [pc EXCEPT ![p] = "done"]
                /\ ret' = [ret EXCEPT ![p] = Ret(FALSE, r.err)]
           ELSE /\ pc' = [pc EXCEPT ![p] = "open"]
                /\ UNCHANGED ret
    /\ UNCHANGED <<markers, faults, markers0, arg, ensureVars, runVars, otherVars>>

CineOpen(p) ==
    /\ pc[p] = "open"
    /\ \E io \in IOOutcomes :
        LET r == OpenExcl(markers, dirExists, arg[p], io) IN
        /\ markers' = r.m
        /\ ret' = [ret EXCEPT ![p] = Ret(r.val, r.err)]
        /\ pc' = [pc EXCEPT ![p] = "done"]
    /\ UNCHANGED <<dirExists, faults, markers0, arg, ensureVars, runVars, otherVars>>

NextCreate == \E p \in Procs : CineCall(p) \/ CineMkdir(p) \/ CineOpen(p)

SpecCreate == InitCreate /\ [][NextCreate]_vars

Callers(n) == {p \in Procs : pc[p] # "idle" /\ arg[p] = n}
Creators(n) == {p \in Callers(n) : pc[p] = "done" /\ ret[p].val}

\* C1: N processes race on CreateIfNotExists(name) for a valid name that was
\* absent: never more than one of them is told created = true, none gets an
\* error, and once all of them have returned exactly one was told
\* created = true, the others (false, nil), and the marker exists.
C1_ExactlyOneCreator ==
    \A n \in CreateNames :
        (validateMarkerName(n) = NoError /\ n \notin markers0) =>
            /\ Cardinality(Creators(n)) <= 1
            /\ \A p \in Callers(n) : pc[p] = "done" => ret[p].err = NoError
            /\ (Callers(n) # {} /\ \A p \in Callers(n) : pc[p] = "done") =>
                  /\ Cardinality(Creators(n)) = 1
                  /\ \A p \in Callers(n) \ Creators(n) : ret[p] = Ret(FALSE, NoError)
                  /\ n \in markers

C1_Witness ==
    \E n \in CreateNames :
        /\ n \notin markers0
        /\ Callers(n) = Procs
        /\ \A p \in Procs : pc[p] = "done"
        /\ Cardinality(Creators(n)) = 1
        /\ n \in markers

----------------------------------------------------------------------------
(* Concurrent ensureCanonicalMarker(markers, canonical, legacy...): the    *)
(* processes make up to MaxCalls calls between them, all with the same     *)
(* arguments; each filesystem call is one step.                            *)

MaxCalls == 4

Canonical == <<"service-deployment-complete">>
Legacy1 == <<"deployment-complete">>
Legacy2 == <<"deploy-done">>

LegacyLists ==
    { <<Legacy1>>, <<Legacy1, Legacy2>>, << <<>>, Legacy2 >>, <<Canonical, Legacy1>>, <<>> }

\* the aliases the loop does not skip
Considered(legacy) ==
    {legacy[i] : i \in {j \in 1..Len(legacy) : legacy[j] # <<>> /\ legacy[j] # Canonical}}

InitEnsure ==
    /\ markers \in SUBSET {Canonical, Legacy1, Legacy2}
    /\ dirExists = TRUE
    /\ faults = FALSE
    /\ markers0 = markers
    /\ pc = [p \in Procs |-> "idle"]
    /\ \E legacy \in LegacyLists :
          arg = [p \in Procs |-> [canonical |-> Canonical, legacy |-> legacy]]
    /\ ret = [p \in Procs |-> NoRet]
    /\ EnsureIdle
    /\ RunIdle
    /\ OthersIdle

\* return (val, err) from ensureCanonicalMarker, to the step body that
\* called it if there is one
EcmReturn(p, val, err, m) ==
    /\ pc' = [pc EXCEPT ![p] = IF run[p].kind = "none" THEN "idle" ELSE "body_checked"]
    /\ ret' = [ret EXCEPT ![p] = Ret(val, err)]
    /\ results' = [results EXCEPT ![p] = Append(@, Ret(val, err))]
    /\ after' = [after EXCEPT ![p] = Append(@, m)]

\* the calls of ensureCanonicalMarker the processes of S have made so far
RECURSIVE CallsMade(_)
CallsMade(S) ==
    IF S = {} THEN 0
    ELSE LET p == CHOOSE q \in S : TRUE IN
         Len(results[p]) + (IF pc[p] = "idle" THEN 0 ELSE 1) + CallsMade(S \ {p})

EcmCall(p) ==
    /\ pc[p] = "idle"
    /\ CallsMade(Procs) < MaxCalls
    /\ pc' = [pc EXCEPT ![p] = "ecm_canonical"]
    /\ idx' = [idx EXCEPT ![p] = 0]
    /\ wasCreated' = [wasCreated EXCEPT ![p] = FALSE]
    /\ UNCHANGED <<fsVars, arg, ret, results, after, removals, runVars, otherVars>>

\* markers.Exists(canonical): the fast path
EcmCanonicalNoFastPath(p) ==
    /\ pc[p] = "ecm_canonical"
    /\ pc' = [pc EXCEPT ![p] = "ecm_legacy"]
    /\ idx' = [idx EXCEPT ![p] = 1]
    /\ UNCHANGED <<fsVars, arg, ret, results, after, wasCreated, removals, runVars, otherVars>>

EcmCanonical(p) ==
    /\ pc[p] = "ecm_canonical"
    /\ \E io \in IOOutcomes :
        LET r == Exists(markers, dirExists, arg[p].canonical, io) IN
        IF r.err # NoError THEN EcmReturn(p, FALSE, r.err, markers) /\ UNCHANGED idx
        ELSE IF r.val THEN EcmReturn(p, TRUE, NoError, markers) /\ UNCHANGED idx
        ELSE /\ pc' = [pc EXCEPT ![p] = "ecm_legacy"]
             /\ idx' = [idx EXCEPT ![p] = 1]
             /\ UNCHANGED <<ret, results, after>>
    /\ UNCHANGED <<fsVars, arg, wasCreated, removals, runVars, otherVars>>

\* for _, legacyName := range legacy: the last index the loop visits
RangeEndFirstOnly(legacy) == IF legacy = <<>> THEN 0 ELSE 1

RangeEnd(legacy) == Len(legacy)

\* one iteration of the loop over the legacy aliases, or its exit
EcmLegacy(p) ==
    /\ pc[p] = "ecm_legacy"
    /\ LET legacy == arg[p].legacy IN
       IF idx[p] > RangeEnd(legacy)
       THEN EcmReturn(p, FALSE, NoError, markers) /\ UNCHANGED idx
       ELSE LET legacyName == legacy[idx[p]] IN
            IF legacyName = <<>> \/ legacyName = arg[p].canonical
            THEN /\ idx' = [idx EXCEPT ![p] = @ + 1]
                 /\ UNCHANGED <<pc, ret, results, after>>
            ELSE \E io \in IOOutcomes :
                 LET r == Exists(markers, dirExists, legacyName, io) IN
                 IF r.err # NoError THEN EcmReturn(p, FALSE, r.err, markers) /\ UNCHANGED idx
                 ELSE IF ~r.val
                 THEN /\ idx' = [idx EXCEPT ![p] = @ + 1]
                      /\ UNCHANGED <<pc, ret, results, after>>
                 ELSE /\ pc' = [pc EXCEPT ![p] = "ecm_mkdir"]
                      /\ UNCHANGED <<idx, ret, results, after>>
    /\ UNCHANGED <<fsVars, arg, wasCreated, removals, runVars, otherVars>>

\* markers.CreateIfNotExists(canonical), first filesystem call
EcmMkdir(p) ==
    /\ pc[p] = "ecm_mkdir"
    /\ \E io \in IOOutcomes :
        LET r == MkdirAll(markers, dirExists, io) IN
        /\ dirExists' = r.d
        /\ IF r.err # NoError
           THEN EcmReturn(p, FALSE, r.err, markers)
           ELSE /\ pc' = [pc EXCEPT ![p] = "ecm_open"]
                /\ UNCHANGED <<ret, results, after>>
    /\ UNCHANGED <<markers, faults, markers0, arg, idx, wasCreated, removals, runVars, otherVars>>

\* markers.CreateIfNotExists(canonical), second filesystem call
EcmOpen(p) ==
    /\ pc[p] = "ecm_open"
    /\ \E io \in IOOutcomes :
        LET r == OpenExcl(markers, dirExists, arg[p].canonical, io) IN
        /\ markers' = r.m
        /\ IF r.err # NoError
           THEN EcmReturn(p, FALSE, r.err, r.m) /\ UNCHANGED wasCreated
           ELSE /\ wasCreated' = [wasCreated EXCEPT ![p] = r.val]
                /\ pc' = [pc EXCEPT ![p] = "ecm_cleanup"]
                /\ UNCHANGED <<ret, results, after>>
    /\ UNCHANGED <<dirExists, faults, markers0, arg, idx, removals, runVars, otherVars>>

\* does this call remove the legacy alias it found
CleanupAlways(p) == TRUE

CleanupNever(p) == FALSE

CleanupWanted(p) == wasCreated[p]

\* best-effort removal of the legacy alias, then return (true, nil)
EcmCleanup(p) ==
    /\ pc[p] = "ecm_cleanup"
    /\ LET legacyName == arg[p].legacy[idx[p]] IN
       IF CleanupWanted(p)
       THEN \E io \in IOOutcomes :
            LET r == Remove(markers, dirExists, legacyName, io) IN
            /\ markers' = r.m
            /\ removals' = Append(removals,
                   [proc |-> p, name |-> legacyName, created |-> wasCreated[p],
                    canonicalPresent |-> arg[p].canonical \in markers,
                    removed |-> legacyName \in markers /\ legacyName \notin r.m])
            /\ EcmReturn(p, TRUE, NoError, r.m)
       ELSE /\ EcmReturn(p, TRUE, NoError, markers)
            /\ UNCHANGED <<markers, removals>>
    /\ UNCHANGED <<dirExists, faults, markers0, arg, idx, wasCreated, runVars, otherVars>>

NextEnsure ==
    \E p \in Procs :
        \/ EcmCall(p)
        \/ EcmCanonical(p)
        \/ EcmLegacy(p)
        \/ EcmMkdir(p)
        \/ EcmOpen(p)
        \/ EcmCleanup(p)

SpecEnsure == InitEnsure /\ [][NextEnsure]_vars

\* the legacy list every process of the run passes
TheLegacy == arg[1].legacy

\* the first alias the loop of a lone call would find
FirstFound(legacy, m) ==
    LET hits == {i \in 1..Len(legacy) :
                    legacy[i] # <<>> /\ legacy[i] # Canonical /\ legacy[i] \in m}
    IN  legacy[CHOOSE i \in hits : \A j \in hits : i <= j]

MigrationPending ==
    /\ Canonical \notin markers0
    /\ Considered(TheLegacy) \cap markers0 # {}

\* C2: from "canonical absent, some legacy alias present", every concurrent
\* call of ensureCanonicalMarker returns (true, nil).
C2_AllObserveComplete ==
    MigrationPending =>
        \A p \in Procs : \A i \in 1..Len(results[p]) : results[p][i] = Ret(TRUE, NoError)

\* p is the only process that has called ensureCanonicalMarker so far
Alone(p) == \A q \in Procs \ {p} : pc[q] = "idle" /\ results[q] = <<>>

\* C8: with a legacy marker present and the canonical one absent, two calls
\* in a row both return (true, nil); after the first the canonical marker
\* exists and the legacy marker it found is gone; the second changes nothing.
C8_MigrationIdempotent ==
    \A p \in Procs :
        (Alone(p) /\ MigrationPending) =>
            /\ \A i \in 1..Len(results[p]) : results[p][i] = Ret(TRUE, NoError)
            /\ Len(after[p]) >= 1 =>
                  /\ Canonical \in after[p][1]
                  /\ FirstFound(TheLegacy, markers0) \notin after[p][1]
            /\ Len(after[p]) >= 2 => after[p][2] = after[p][1]
            /\ (Len(after[p]) >= 1 /\ pc[p] # "idle") => markers = after[p][1]

C8_Witness ==
    \E p \in Procs :
        /\ Alone(p)
        /\ MigrationPending
        /\ Len(results[p]) = 2
        /\ pc[p] = "idle"
        /\ markers = (markers0 \cup {Canonical}) \ {FirstFound(TheLegacy, markers0)}

\* C9: every legacy removal is performed by a call whose own
\* CreateIfNotExists(canonical) returned created = true, at most one call
\* ever performs one, and the canonical marker exists when it happens.
C9_OnlyCreatorCleansUp ==
    /\ \A i \in 1..Len(removals) : removals[i].created /\ removals[i].canonicalPresent
    /\ Len(removals) <= 1
    /\ Cardinality({p \in Procs : pc[p] = "ecm_cleanup" /\ wasCreated[p]}) + Len(removals) <= 1
    /\ \A n \in Considered(TheLegacy) :
          (n \in markers0 /\ n \notin markers) => Canonical \in markers

C9_Witness ==
    /\ Len(removals) = 1
    /\ removals[1].removed
    /\ \E p \in Procs \ {removals[1].proc} :
          /\ Len(results[p]) >= 1
          /\ results[p][1] = Ret(TRUE, NoError)
          /\ idx[p] >= 1
    /\ \A p \in Procs : pc[p] = "idle"

\* the marker files when call i of process p began, p calling alone
BeforeCall(p, i) == IF i = 1 THEN markers0 ELSE after[p][i - 1]

\* C20: called sequentially, ensureCanonicalMarker returns (false, nil)
\* exactly when neither the canonical marker nor any alias it considers
\* exists, and then it changes nothing; when it returns (true, nil) the
\* canonical marker exists.
C20_NotCompleteIffNoneExists ==
    \A p \in Procs :
        Alone(p) =>
            \A i \in 1..Len(results[p]) :
                /\ results[p][i] = Ret(FALSE, NoError) <=>
                      (Canonical \notin BeforeCall(p, i)
                          /\ Considered(TheLegacy) \cap BeforeCall(p, i) = {})
                /\ results[p][i] = Ret(FALSE, NoError) => after[p][i] = BeforeCall(p, i)
                /\ results[p][i] = Ret(TRUE, NoError) => Canonical \in after[p][i]
                /\ results[p][i].err = NoError

C20_Witness ==
    \E p \in Procs :
        /\ Alone(p)
        /\ TheLegacy = <<Legacy1>>
        /\ markers0 = {Legacy2}
        /\ pc[p] = "idle"
        /\ results[p] = <<Ret(FALSE, NoError), Ret(FALSE, NoError)>>
        /\ markers = markers0
        /\ removals = <<>>

\* C19: a call that finds the canonical marker present returns (true, nil)
\* at once; that step creates and removes nothing, so legacy aliases that
\* still exist stay in place.
C19_FastPath ==
    [][\A p \in Procs :
          (pc[p] = "ecm_canonical" /\ pc'[p] # "ecm_canonical" /\ arg[p].canonical \in markers) =>
              /\ pc'[p] = "idle"
              /\ ret'[p] = Ret(TRUE, NoError)
              /\ markers' = markers
              /\ dirExists' = dirExists
              /\ removals' = removals]_vars

C19_Witness ==
    \E p \in Procs :
        /\ Canonical \in markers0
        /\ Legacy1 \in Considered(TheLegacy)
        /\ Legacy1 \in markers
        /\ pc[p] = "idle"
        /\ results[p] = <<Ret(TRUE, NoError)>>
        /\ after[p] = <<markers0>>
        /\ removals = <<>>

----------------------------------------------------------------------------
(* The step orchestrator: RunStep and RunAll of package cli, run by one    *)
(* process at a time.  The work of a step body is a black box that         *)
(* succeeds or returns an error; what the bodies do to markers follows     *)
(* ContainerSetup.Run and RunDeployment.                                   *)

MaxRuns == 2

Runners == {1}

Errs == {"E1", "E2"}

ShortNames == {"preflight", "user", "directory", "wireguard", "nfs", "container", "deployment"}

\* the marker name RunStep's switch assigns
MarkerName(shortName) ==
    CASE shortName = "preflight"  -> <<"preflight-complete">>
      [] shortName = "user"       -> <<"user-setup-complete">>
      [] shortName = "directory"  -> <<"directory-setup-complete">>
      [] shortName = "wireguard"  -> <<"wireguard-setup-complete">>
      [] shortName = "nfs"        -> <<"nfs-setup-complete">>
      [] shortName = "container"  -> <<"container-setup-complete">>
      [] shortName = "deployment" -> <<"service-deployment-complete">>
      [] OTHER                    -> <<>>

\* legacy aliases the step body reconciles before it works
LegacyOf(shortName) == IF shortName = "deployment" THEN <<Legacy1>> ELSE <<>>

\* runSetup: the skipWireGuard argument the subcommands "all" and "quick"
\* pass to RunAll, given the --skip-wireguard flag
SkipArg(step, skipWireguard) == IF step = "quick" THEN TRUE ELSE skipWireguard

\* the steps slice RunAll builds
RunAllStepsNoSkip(skipWireGuard) ==
    <<"preflight", "user", "directory", "wireguard", "nfs", "container", "deployment">>

RunAllStepsWireGuardLate(skipWireGuard) ==
    <<"preflight", "user", "directory", "nfs">>
        \o (IF ~skipWireGuard THEN <<"wireguard">> ELSE <<>>)
        \o <<"container", "deployment">>

RunAllSteps(skipWireGuard) ==
    <<"preflight", "user", "directory">>
        \o (IF ~skipWireGuard THEN <<"wireguard">> ELSE <<>>)
        \o <<"nfs", "container", "deployment">>

\* fmt.Errorf("step %s failed: %w", step, err) as RunAll's return value
StepFailedError(step, err) == [val |-> FALSE, err |-> err, step |-> step]

\* RunAll's test of the error RunStep returned
NeverAbort(err) == FALSE

AbortOnError(err) == err # NoError

\* status of a step as GetStatus computes it on a filesystem without faults
StatusOf(m, d, marker) == GetStatus(m, d, marker, "ok", "ok").val

InitRun ==
    /\ markers \in {{}, {Legacy1}}
    /\ dirExists = (markers # {})
    /\ faults = FALSE
    /\ markers0 = markers
    /\ pc = [p \in Procs |-> "idle"]
    /\ arg = [p \in Procs |-> <<>>]
    /\ ret = [p \in Procs |-> NoRet]
    /\ EnsureIdle
    /\ interactive \in BOOLEAN
    /\ run = [p \in Procs |-> NoRun]
    /\ OthersIdle

Event(ev, step, err) == [ev |-> ev, step |-> step, err |-> err]

\* the step at which the invocation that has just ended aborted, when it
\* was a RunAll that did, and whether that RunAll skipped WireGuard
Aborted(p) ==
    IF run[p].kind = "RunAll" /\ ret[p].err # NoError
    THEN [step |-> ret[p].step, skip |-> run[p].skip]
    ELSE [step |-> "", skip |-> FALSE]

\* the command line (run all | quick | <step>), with or without
\* --non-interactive, invokes RunAll(skipWireGuard) or RunStep(shortName)
Invoke(p) ==
    /\ pc[p] = "idle"
    /\ run[p].calls < MaxRuns
    /\ interactive' \in BOOLEAN
    /\ \/ \E step \in {"all", "quick"}, skipWireguard \in BOOLEAN :
            LET skipWireGuard == SkipArg(step, skipWireguard) IN
            /\ run' = [run EXCEPT ![p] =
                   [NoRun EXCEPT !.kind = "RunAll", !.cmd = step,
                                 !.queue = RunAllSteps(skipWireGuard),
                                 !.skip = skipWireGuard, !.resumes = Aborted(p),
                                 !.atCall = markers, !.calls = run[p].calls + 1]]
            /\ pc' = [pc EXCEPT ![p] = "ra_loop"]
       \/ \E shortName \in ShortNames \cup {"bogus"} :
            /\ run' = [run EXCEPT ![p] =
                   [NoRun EXCEPT !.kind = "RunStep", !.cmd = shortName, !.step = shortName,
                                 !.resumes = Aborted(p),
                                 !.atCall = markers, !.calls = run[p].calls + 1]]
            /\ pc' = [pc EXCEPT ![p] = "rs_switch"]
    /\ ret' = [ret EXCEPT ![p] = NoRet]
    /\ UNCHANGED <<fsVars, arg, ensureVars, otherVars>>

\* RunAll: for _, step := range steps
RaLoop(p) ==
    /\ pc[p] = "ra_loop"
    /\ IF run[p].queue = <<>>
       THEN /\ pc' = [pc EXCEPT ![p] = "idle"]
            /\ ret' = [ret EXCEPT ![p] = Ret(TRUE, NoError)]
            /\ UNCHANGED run
       ELSE /\ pc' = [pc EXCEPT ![p] = "rs_switch"]
            /\ run' = [run EXCEPT ![p].step = Head(run[p].queue),
                                  ![p].queue = Tail(run[p].queue)]
            /\ UNCHANGED ret
    /\ UNCHANGED <<fsVars, arg, ensureVars, interactive, otherVars>>

\* RunStep: the switch on shortName
RsSwitch(p) ==
    /\ pc[p] = "rs_switch"
    /\ LET known == run[p].step \in ShortNames IN
       /\ run' = [run EXCEPT
              ![p].err = IF known THEN NoError ELSE "unknown step",
              ![p].worked = "no",
              ![p].rerun = FALSE,
              ![p].seen = NoError,
              ![p].lost = NoError,
              ![p].atStep = markers,
              ![p].prior = StatusOf(markers, dirExists, MarkerName(run[p].step)),
              ![p].log = Append(@, Event("start", run[p].step, NoError))]
       /\ pc' = [pc EXCEPT ![p] = IF known THEN "rx_complete" ELSE "rs_done"]
    /\ UNCHANGED <<fsVars, arg, ret, ensureVars, interactive, otherVars>>

\* run<Step>: IsStepComplete, which reads an Exists error as "not complete"
RxComplete(p) ==
    /\ pc[p] = "rx_complete"
    /\ \E io \in IOOutcomes :
        LET r == Exists(markers, dirExists, MarkerName(run[p].step), io) IN
        /\ pc' = [pc EXCEPT ![p] = IF r.err = NoError /\ r.val THEN "rx_prompt" ELSE "body_check"]
        /\ run' = [run EXCEPT ![p].seen = r.err]
    /\ UNCHANGED <<fsVars, arg, ret, ensureVars, interactive, otherVars>>

\* what PromptYesNo("Run again?", false) can answer
AnswersAlwaysAsk == {"yes", "no", "err"}

Answers == IF interactive THEN {"yes", "no", "err"} ELSE {"no"}

\* run<Step>: the step is complete; ask whether to run it again
RxPrompt(p) ==
    /\ pc[p] = "rx_prompt"
    /\ \E answer \in Answers :
        IF answer = "yes"
        THEN /\ pc' = [pc EXCEPT ![p] = "rx_remove"]
             /\ run' = [run EXCEPT ![p].rerun = TRUE]
        ELSE /\ pc' = [pc EXCEPT ![p] = "rs_clear"]
             /\ UNCHANGED run
    /\ UNCHANGED <<fsVars, arg, ret, ensureVars, interactive, otherVars>>

\* removeMarkerIfRerun: a failure to remove is only warned about
RxRemoveSkipped(p) ==
    /\ pc[p] = "rx_remove"
    /\ pc' = [pc EXCEPT ![p] = "body_check"]
    /\ UNCHANGED <<fsVars, arg, ret, ensureVars, runVars, otherVars>>

RxRemove(p) ==
    /\ pc[p] = "rx_remove"
    /\ \E io \in IOOutcomes :
        LET r == Remove(markers, dirExists, MarkerName(run[p].step), io) IN
        /\ markers' = r.m
        /\ run' = [run EXCEPT ![p].lost = IF r.err # NoError THEN r.err ELSE @]
    /\ pc' = [pc EXCEPT ![p] = "body_check"]
    /\ UNCHANGED <<dirExists, faults, markers0, arg, ret, ensureVars, interactive, otherVars>>

\* step body: "check if already completed", directly or through
\* ensureCanonicalMarker when the step has legacy aliases
BodyCheck(p) ==
    /\ pc[p] = "body_check"
    /\ IF LegacyOf(run[p].step) = <<>>
       THEN /\ \E io \in IOOutcomes :
                LET r == Exists(markers, dirExists, MarkerName(run[p].step), io) IN
                IF r.err # NoError
                THEN /\ pc' = [pc EXCEPT ![p] = "rs_fail"]
                     /\ run' = [run EXCEPT ![p].err = r.err]
                ELSE /\ pc' = [pc EXCEPT ![p] = IF r.val THEN "rs_clear" ELSE "body_work"]
                     /\ UNCHANGED run
            /\ UNCHANGED <<arg, idx, wasCreated>>
       ELSE /\ pc' = [pc EXCEPT ![p] = "ecm_canonical"]
            /\ arg' = [arg EXCEPT ![p] = [canonical |-> MarkerName(run[p].step),
                                          legacy |-> LegacyOf(run[p].step)]]
            /\ idx' = [idx EXCEPT ![p] = 0]
            /\ wasCreated' = [wasCreated EXCEPT ![p] = FALSE]
            /\ UNCHANGED run
    /\ UNCHANGED <<fsVars, ret, results, after, removals, interactive, otherVars>>

\* step body: ensureCanonicalMarker has returned
BodyChecked(p) ==
    /\ pc[p] = "body_checked"
    /\ IF ret[p].err # NoError
       THEN /\ pc' = [pc EXCEPT ![p] = "rs_fail"]
            /\ run' = [run EXCEPT ![p].err = ret[p].err]
       ELSE /\ pc' = [pc EXCEPT ![p] = IF ret[p].val THEN "rs_clear" ELSE "body_work"]
            /\ UNCHANGED run
    /\ UNCHANGED <<fsVars, arg, ret, ensureVars, interactive, otherVars>>

\* step body: the provisioning work itself
BodyWork(p) ==
    /\ pc[p] = "body_work"
    /\ \E outcome \in {"ok"} \cup Errs :
        /\ run' = [run EXCEPT
               ![p].worked = outcome,
               ![p].err = IF outcome = "ok" THEN NoError ELSE outcome,
               ![p].log = Append(@, Event("work", run[p].step,
                                        IF outcome = "ok" THEN NoError ELSE outcome))]
        /\ pc' = [pc EXCEPT ![p] = IF outcome = "ok" THEN "body_mark" ELSE "rs_fail"]
    /\ UNCHANGED <<fsVars, arg, ret, ensureVars, interactive, otherVars>>

\* step body: create the completion marker as the last action
BodyMark(p) ==
    /\ pc[p] = "body_mark"
    /\ \E io \in IOOutcomes :
        LET r == Create(markers, dirExists, MarkerName(run[p].step), io) IN
        /\ markers' = r.m
        /\ dirExists' = r.d
        /\ IF r.err # NoError
           THEN /\ pc' = [pc EXCEPT ![p] = "rs_fail"]
                /\ run' = [run EXCEPT ![p].err = r.err]
           ELSE /\ pc' = [pc EXCEPT ![p] = "rs_clear"]
                /\ UNCHANGED run
    /\ UNCHANGED <<faults, markers0, arg, ret, ensureVars, interactive, otherVars>>

\* RunStep, err != nil: MarkFailed (a failure of it is only warned about)
RsFail(p) ==
    /\ pc[p] = "rs_fail"
    /\ \E io \in IOOutcomes :
        LET r == MarkFailed(markers, dirExists, MarkerName(run[p].step), io) IN
        /\ markers' = r.m
        /\ dirExists' = r.d
    /\ pc' = [pc EXCEPT ![p] = "rs_done"]
    /\ UNCHANGED <<faults, markers0, arg, ret, ensureVars, runVars, otherVars>>

\* RunStep, err == nil: ClearFailure (a failure of it is only warned about)
RsClear(p) ==
    /\ pc[p] = "rs_clear"
    /\ \E io \in IOOutcomes :
        LET r == ClearFailure(markers, dirExists, MarkerName(run[p].step), io) IN
        /\ markers' = r.m
        /\ dirExists' = r.d
        /\ run' = [run EXCEPT ![p].lost = IF r.err # NoError THEN r.err ELSE @]
    /\ pc' = [pc EXCEPT ![p] = "rs_create"]
    /\ UNCHANGED <<faults, markers0, arg, ret, ensureVars, interactive, otherVars>>

\* RunStep, err == nil: Create (a failure of it is only warned about)
RsCreate(p) ==
    /\ pc[p] = "rs_create"
    /\ \E io \in IOOutcomes :
        LET r == Create(markers, dirExists, MarkerName(run[p].step), io) IN
        /\ markers' = r.m
        /\ dirExists' = r.d
        /\ run' = [run EXCEPT ![p].lost = IF r.err # NoError THEN r.err ELSE @]
    /\ pc' = [pc EXCEPT ![p] = "rs_done"]
    /\ UNCHANGED <<faults, markers0, arg, ret, ensureVars, interactive, otherVars>>

\* RunStep returns err to its caller: the command line, or RunAll's loop,
\* which wraps it as "step <name> failed: <err>"
RsReturn(p) ==
    /\ pc[p] = "rs_done"
    /\ run' = [run EXCEPT ![p].log = Append(@, Event("return", run[p].step, run[p].err))]
    /\ IF run[p].kind = "RunStep"
       THEN /\ pc' = [pc EXCEPT ![p] = "idle"]
            /\ ret' = [ret EXCEPT ![p] = Ret(run[p].err = NoError, run[p].err)]
       ELSE IF AbortOnError(run[p].err)
       THEN /\ pc' = [pc EXCEPT ![p] = "idle"]
            /\ ret' = [ret EXCEPT ![p] = StepFailedError(run[p].step, run[p].err)]
       ELSE /\ pc' = [pc EXCEPT ![p] = "ra_loop"]
            /\ UNCHANGED ret
    /\ UNCHANGED <<fsVars, arg, ensureVars, interactive, otherVars>>

NextRun ==
    \E p \in Runners :
        \/ Invoke(p)
        \/ RaLoop(p)
        \/ RsSwitch(p)
        \/ RxComplete(p)
        \/ RxPrompt(p)
        \/ RxRemove(p)
        \/ BodyCheck(p)
        \/ EcmCanonical(p)
        \/ EcmLegacy(p)
        \/ EcmMkdir(p)
        \/ EcmOpen(p)
        \/ EcmCleanup(p)
        \/ BodyChecked(p)
        \/ BodyWork(p)
        \/ BodyMark(p)
        \/ RsFail(p)
        \/ RsClear(p)
        \/ RsCreate(p)
        \/ RsReturn(p)

SpecRun == InitRun /\ [][NextRun]_vars

\* RunStep has just returned (to RunAll's loop or to the command line)
Returned(p) == pc[p] = "rs_done" \/ (pc[p] = "idle" /\ run[p].kind = "RunStep")

\* C3: when RunStep ran the step body and the body succeeded, then at the
\* return of RunStep the failure marker is absent, the completion marker
\* exists and GetStatus is Completed, whatever the status was before.
C3_SuccessEndsCompleted ==
    \A p \in Runners :
        (Returned(p) /\ run[p].worked = "ok") =>
            LET marker == MarkerName(run[p].step) IN
            /\ Failed(marker) \notin markers
            /\ marker \in markers
            /\ GetStatus(markers, dirExists, marker, "ok", "ok") = [val |-> StepCompleted, err |-> NoError]
            /\ run[p].err = NoError

C3_Witness ==
    \E p \in Runners :
        /\ pc[p] = "idle"
        /\ run[p].kind = "RunStep"
        /\ run[p].step = "nfs"
        /\ run[p].worked = "ok"
        /\ run[p].prior = StepFailed
        /\ Failed(MarkerName("nfs")) \in run[p].atStep
        /\ Failed(MarkerName("nfs")) \notin markers

\* C4: when the step body returns an error, RunStep creates the failure
\* marker, returns that same error, does not create the completion marker
\* in that invocation, and GetStatus is Failed afterwards.
C4_FailureEndsFailed ==
    \A p \in Runners :
        (Returned(p) /\ run[p].worked \in Errs) =>
            LET marker == MarkerName(run[p].step) IN
            /\ Failed(marker) \in markers
            /\ run[p].err = run[p].worked
            /\ (pc[p] = "idle" => ret[p] = Ret(FALSE, run[p].worked))
            /\ (marker \in markers => marker \in run[p].atStep)
            /\ GetStatus(markers, dirExists, marker, "ok", "ok") = [val |-> StepFailed, err |-> NoError]

C4_Witness ==
    \E p \in Runners :
        /\ pc[p] = "idle"
        /\ run[p].kind = "RunStep"
        /\ run[p].worked = "E2"
        /\ run[p].prior = StepNotStarted
        /\ ret[p].err = "E2"
        /\ Failed(MarkerName(run[p].step)) \in markers
        /\ MarkerName(run[p].step) \notin markers

\* the order of the pipeline as the documentation gives it
FixedOrder == <<"preflight", "user", "directory", "wireguard", "nfs", "container", "deployment">>

ExpectedSteps(skip) == SelectSeq(FixedOrder, LAMBDA s : ~(skip /\ s = "wireguard"))

PositionIn(seq, s) == CHOOSE i \in 1..Len(seq) : seq[i] = s

\* every file a step owns in the marker directory
FilesOf(s) == {MarkerName(s), Failed(MarkerName(s))} \cup {LegacyOf(s)[i] : i \in 1..Len(LegacyOf(s))}

\* C5: RunAll aborts on the first failing step: a RunStep that returned an
\* error is the last thing RunAll did, RunAll has returned an error naming
\* that step and wrapping its error, and no file of a later step was
\* created or removed.
C5_AbortsOnFirstFailure ==
    \A p \in Runners :
        run[p].kind = "RunAll" =>
            \A i \in 1..Len(run[p].log) :
                LET e == run[p].log[i] IN
                (e.ev = "return" /\ e.err # NoError) =>
                    /\ i = Len(run[p].log)
                    /\ pc[p] = "idle"
                    /\ ret[p] = [val |-> FALSE, err |-> e.err, step |-> e.step]
                    /\ \A j \in 1..Len(FixedOrder) :
                          j > PositionIn(FixedOrder, e.step) =>
                              markers \cap FilesOf(FixedOrder[j])
                                  = run[p].atCall \cap FilesOf(FixedOrder[j])

C5_Witness ==
    \E p \in Runners :
        /\ run[p].kind = "RunAll"
        /\ pc[p] = "idle"
        /\ ret[p] = [val |-> FALSE, err |-> "E1", step |-> "directory"]
        /\ MarkerName("nfs") \in markers
        /\ Failed(MarkerName("container")) \in markers
        /\ MarkerName("user") \in markers

Starts(log) == SelectSeq(log, LAMBDA e : e.ev = "start")

\* C6: RunAll starts the steps in the fixed order, wireguard left out when
\* skipped, each at most once, and a step only after the RunStep of the
\* step before it (hence of every earlier one) has returned nil.
C6_StepsInFixedOrder ==
    \A p \in Runners :
        run[p].kind = "RunAll" =>
            LET log == run[p].log
                started == Starts(log)
                expected == ExpectedSteps(run[p].skip)
            IN  /\ Len(started) <= Len(expected)
                /\ \A k \in 1..Len(started) : started[k].step = expected[k]
                /\ \A i \in 1..Len(log) :
                      (log[i].ev = "start" /\ i > 1) =>
                          /\ log[i - 1].ev = "return"
                          /\ log[i - 1].err = NoError
                /\ \A i \in 1..Len(log) :
                      log[i].ev \in {"work", "return"} =>
                          started[Len(Starts(SubSeq(log, 1, i)))].step = log[i].step
                /\ (pc[p] = "idle" /\ ret[p].err = NoError) => Len(started) = Len(expected)

C6_Witness ==
    \E p \in Runners :
        /\ run[p].kind = "RunAll"
        /\ ~run[p].skip
        /\ pc[p] = "idle"
        /\ ret[p] = Ret(TRUE, NoError)
        /\ Len(Starts(run[p].log)) = 7
        /\ \A s \in ShortNames : MarkerName(s) \in markers

\* the pipeline without its optional step
WithoutWireGuard == <<"preflight", "user", "directory", "nfs", "container", "deployment">>

\* C24: a RunAll that skips WireGuard (run quick always does) never starts
\* the wireguard step, creates or removes neither wireguard-setup-complete
\* nor wireguard-setup-complete-failed, and runs the other six steps in
\* their usual order.
C24_SkipLeavesWireGuardAlone ==
    \A p \in Runners :
        run[p].kind = "RunAll" =>
            /\ run[p].cmd = "quick" => run[p].skip
            /\ run[p].skip =>
                  LET started == Starts(run[p].log) IN
                  /\ \A i \in 1..Len(run[p].log) : run[p].log[i].step # "wireguard"
                  /\ run[p].step # "wireguard"
                  /\ markers \cap FilesOf("wireguard") = run[p].atCall \cap FilesOf("wireguard")
                  /\ Len(started) <= Len(WithoutWireGuard)
                  /\ \A k \in 1..Len(started) : started[k].step = WithoutWireGuard[k]
                  /\ (pc[p] = "idle" /\ ret[p].err = NoError) =>
                        Len(started) = Len(WithoutWireGuard)

C24_Witness ==
    \E p \in Runners :
        /\ run[p].kind = "RunAll"
        /\ run[p].cmd = "quick"
        /\ pc[p] = "idle"
        /\ ret[p] = Ret(TRUE, NoError)
        /\ Len(Starts(run[p].log)) = 6
        /\ Failed(MarkerName("wireguard")) \in markers
        /\ MarkerName("wireguard") \notin markers
        /\ \A s \in ShortNames \ {"wireguard"} : MarkerName(s) \in markers

\* positions inside a step body
BodyPcs ==
    {"body_check", "ecm_canonical", "ecm_legacy", "ecm_mkdir", "ecm_open", "ecm_cleanup",
     "body_checked", "body_work", "body_mark"}

Transition(from, success, to) == <<from, success, to>>

\* the transitions the state machine of a step lists
ListedTransitions ==
    {Transition(StepNotStarted, TRUE, StepCompleted),
     Transition(StepNotStarted, FALSE, StepFailed),
     Transition(StepCompleted, TRUE, StepCompleted),
     Transition(StepFailed, TRUE, StepCompleted),
     Transition(StepFailed, FALSE, StepFailed)}

\* a forced re-run of a completed step that fails
RerunFails == Transition(StepCompleted, FALSE, StepFailed)

\* the transition the RunStep of p has made when it returns
Made(p) ==
    Transition(run[p].prior, run[p].err = NoError,
               StatusOf(markers, dirExists, MarkerName(run[p].step)))

\* C29 as stated: after every RunStep of a step, the status before it, its
\* outcome and the status GetStatus computes after it form one of the five
\* listed transitions.
C29_OnlyListedTransitions ==
    \A p \in Runners :
        (pc[p] = "rs_done" /\ run[p].step \in ShortNames) => Made(p) \in ListedTransitions

\* C29, amended: after every RunStep of a step the status is Completed when
\* it returned nil and Failed when it returned an error, it is never
\* NotStarted after having been Completed or Failed, and the transition is a
\* listed one or Completed --(forced re-run, fails)--> Failed.
C29_StepTransitions ==
    \A p \in Runners :
        (pc[p] = "rs_done" /\ run[p].step \in ShortNames) =>
            LET now == StatusOf(markers, dirExists, MarkerName(run[p].step)) IN
            /\ run[p].err = NoError => now = StepCompleted
            /\ run[p].err # NoError => now = StepFailed
            /\ run[p].prior # StepNotStarted => now # StepNotStarted
            /\ Made(p) \in ListedTransitions \cup {RerunFails}

C29_Witness ==
    \E p \in Runners :
        /\ pc[p] = "rs_done"
        /\ run[p].step = "nfs"
        /\ run[p].calls = 2
        /\ run[p].rerun
        /\ run[p].worked = "E1"
        /\ Made(p) = RerunFails
        /\ MarkerName("nfs") \notin markers

\* the steps whose body has done its work in the current invocation
Worked(p) == {run[p].log[i].step : i \in {j \in 1..Len(run[p].log) : run[p].log[j].ev = "work"}}

\* the steps whose RunStep has returned in the current invocation
Finished(p) ==
    {run[p].log[i].step : i \in {j \in 1..Len(run[p].log) : run[p].log[j].ev = "return"}}

\* the steps a RunAll ran before step k
Before(skip, k) ==
    LET steps == ExpectedSteps(skip) IN
    {steps[i] : i \in {j \in 1..Len(steps) : j < PositionIn(steps, k)}}

\* C30: a non-interactive RunAll that follows a RunAll aborted at step k,
\* and has k among its steps, finds every step the aborted one ran before k
\* Completed and never runs the body of such a step, fails at none of them,
\* has run the body of k once its RunStep of k has returned, and when it
\* returns nil every one of its steps is Completed.
C30_ResumeAfterFailure ==
    \A p \in Runners :
        LET k == run[p].resumes.step
            steps == ExpectedSteps(run[p].skip)
        IN  (run[p].kind = "RunAll" /\ ~interactive /\ k # "" /\ ~(run[p].skip /\ k = "wireguard")) =>
                /\ \A s \in Before(run[p].resumes.skip, k) :
                      /\ StatusOf(run[p].atCall, TRUE, MarkerName(s)) = StepCompleted
                      /\ s \notin Worked(p)
                      /\ ~(pc[p] = "idle" /\ ret[p].err # NoError /\ ret[p].step = s)
                /\ StatusOf(run[p].atCall, TRUE, MarkerName(k)) = StepFailed
                /\ k \in Finished(p) => k \in Worked(p)
                /\ (pc[p] = "idle" /\ ret[p].err = NoError) =>
                      \A i \in 1..Len(steps) :
                          StatusOf(markers, dirExists, MarkerName(steps[i])) = StepCompleted

C30_Witness ==
    \E p \in Runners :
        /\ run[p].kind = "RunAll"
        /\ ~interactive
        /\ ~run[p].skip
        /\ run[p].resumes = [step |-> "nfs", skip |-> TRUE]
        /\ pc[p] = "idle"
        /\ ret[p] = Ret(TRUE, NoError)
        /\ Worked(p) = {"wireguard", "nfs", "container", "deployment"}
        /\ Failed(MarkerName("nfs")) \in run[p].atCall
        /\ \A s \in ShortNames : StatusOf(markers, dirExists, MarkerName(s)) = StepCompleted

\* C33: when RunAll has returned nil every step of its sequence has its
\* completion marker and no failure marker, so GetStatus is Completed for
\* each; when it has returned an error naming step k, GetStatus of k is
\* Failed.
C33_RunAllOutcome ==
    \A p \in Runners :
        (run[p].kind = "RunAll" /\ pc[p] = "idle") =>
            IF ret[p].err = NoError
            THEN \A s \in ShortNames :
                    (s # "wireguard" \/ ~run[p].skip) =>
                        /\ MarkerName(s) \in markers
                        /\ Failed(MarkerName(s)) \notin markers
                        /\ GetStatus(markers, dirExists, MarkerName(s), "ok", "ok")
                              = [val |-> StepCompleted, err |-> NoError]
            ELSE /\ ret[p].step \in ShortNames
                 /\ GetStatus(markers, dirExists, MarkerName(ret[p].step), "ok", "ok")
                       = [val |-> StepFailed, err |-> NoError]

C33_Witness ==
    \E p \in Runners :
        /\ run[p].kind = "RunAll"
        /\ pc[p] = "idle"
        /\ run[p].calls = MaxRuns
        /\ run[p].resumes.step = "user"
        /\ ret[p] = [val |-> FALSE, err |-> "E2", step |-> "container"]
        /\ MarkerName("user") \in markers
        /\ MarkerName("container") \notin markers

\* RunStep has gone past the prompt of its wrapper, if there was one
PastPrompt(p) ==
    /\ run[p].step \in ShortNames
    /\ pc[p] \notin {"rs_switch", "rx_complete", "rx_prompt"}
    /\ (pc[p] = "idle" => run[p].kind = "RunStep")

\* C34: of a step that was Completed when RunStep started.  When the re-run
\* was accepted the completion marker is absent while the body executes,
\* a failing body leaves the failure marker and no completion marker, and a
\* succeeding body leaves the completion marker.  When the prompt was
\* declined or failed the body is not executed and the completion marker
\* stays in place.
C34_ForcedRerun ==
    \A p \in Runners :
        LET marker == MarkerName(run[p].step) IN
        (PastPrompt(p) /\ run[p].prior = StepCompleted) =>
            IF run[p].rerun
            THEN /\ pc[p] \in BodyPcs => marker \notin markers
                 /\ (Returned(p) /\ run[p].worked \in Errs) =>
                        /\ Failed(marker) \in markers
                        /\ marker \notin markers
                 /\ (Returned(p) /\ run[p].worked = "ok") => marker \in markers
            ELSE /\ run[p].worked = "no"
                 /\ pc[p] \notin BodyPcs
                 /\ marker \in markers

C34_Witness ==
    \E p \in Runners :
        /\ run[p].kind = "RunAll"
        /\ pc[p] = "rs_done"
        /\ run[p].step = "container"
        /\ run[p].prior = StepCompleted
        /\ run[p].rerun
        /\ run[p].worked = "ok"
        /\ MarkerName("container") \in markers
        /\ MarkerName("container") \in run[p].atStep

----------------------------------------------------------------------------
(* The orchestrator on a filesystem whose calls can fail with an I/O error *)

InitRunFaulty ==
    /\ markers = {MarkerName("nfs"), Legacy1}
    /\ dirExists = TRUE
    /\ faults = TRUE
    /\ markers0 = markers
    /\ pc = [p \in Procs |-> "idle"]
    /\ arg = [p \in Procs |-> <<>>]
    /\ ret = [p \in Procs |-> NoRet]
    /\ EnsureIdle
    /\ interactive \in BOOLEAN
    /\ run = [p \in Procs |-> NoRun]
    /\ OthersIdle

SpecRunFaulty == InitRunFaulty /\ [][NextRun]_vars

\* C15: the orchestrator never takes a step for not complete, and never
\* enters its body, on an Exists call that returned an error.
C15_ExistsErrorNotFalse ==
    \A p \in Runners : pc[p] = "body_check" => run[p].seen = NoError

\* C16: RunStep never returns success after a marker write of its own
\* (remove for a re-run, clear the failure marker, create the completion
\* marker) has failed.
C16_WriteFailurePropagates ==
    \A p \in Runners :
        (Returned(p) /\ run[p].step \in ShortNames /\ run[p].lost # NoError) =>
            run[p].err # NoError

----------------------------------------------------------------------------
(* The Markers methods called one after another by a single client, with   *)
(* safe and unsafe names.                                                  *)

Client == CHOOSE p \in Procs : \A q \in Procs : p <= q

ApiNames ==
    { <<"nfs-setup-complete">>, <<"nfs-setup-complete", "-failed">>,
      <<>>, <<".", ".">>, <<".">>, <<"a", "/", "b">>, <<"a", "\\", "b">> }

InitMarkers ==
    /\ markers = {}
    /\ dirExists \in BOOLEAN
    /\ faults = FALSE
    /\ markers0 = markers
    /\ pc = [p \in Procs |-> "idle"]
    /\ arg = [p \in Procs |-> [op |-> "none", name |-> <<>>, dir |-> FALSE]]
    /\ ret = [p \in Procs |-> NoRet]
    /\ EnsureIdle
    /\ RunIdle
    /\ OthersIdle

\* the names created and not removed since, after a method returned r
Book(op, name, r) ==
    IF r.err # NoError THEN ledger
    ELSE CASE op \in {"Create", "CreateIfNotExists"} /\ r.val -> ledger \cup {name}
           [] op = "MarkFailed" -> ledger \cup {Failed(name)}
           [] op = "Remove" -> ledger \ {name}
           [] op = "ClearFailure" -> ledger \ {Failed(name)}
           [] op = "RemoveAll" -> {}
           [] OTHER -> ledger

\* a method returned r; markers0 and arg.dir keep the files present, and
\* whether the directory existed, before the call
ApiDone(op, name, r) ==
    /\ markers' = r.m
    /\ dirExists' = r.d
    /\ markers0' = markers
    /\ arg' = [arg EXCEPT ![Client] = [op |-> op, name |-> name, dir |-> dirExists]]
    /\ ret' = [ret EXCEPT ![Client] = Ret(r.val, r.err)]
    /\ ledger' = Book(op, name, r)
    /\ UNCHANGED <<faults, pc, ensureVars, runVars, cfgVars, lockVars, dryVars, csVars, spVars,
                   depVars>>

ApiCreate ==
    \E name \in ApiNames, io \in IOOutcomes :
        ApiDone("Create", name, Create(markers, dirExists, name, io))

ApiCreateIfNotExists ==
    \E name \in ApiNames, io \in IOOutcomes :
        ApiDone("CreateIfNotExists", name, CreateIfNotExists(markers, dirExists, name, io))

ApiExists ==
    \E name \in ApiNames, io \in IOOutcomes :
        ApiDone("Exists", name, Exists(markers, dirExists, name, io))

ApiRemove ==
    \E name \in ApiNames, io \in IOOutcomes :
        ApiDone("Remove", name, Remove(markers, dirExists, name, io))

ApiMarkFailed ==
    \E name \in ApiNames, io \in IOOutcomes :
        ApiDone("MarkFailed", name, MarkFailed(markers, dirExists, name, io))

ApiClearFailure ==
    \E name \in ApiNames, io \in IOOutcomes :
        ApiDone("ClearFailure", name, ClearFailure(markers, dirExists, name, io))

ApiIsFailed ==
    \E name \in ApiNames, io \in IOOutcomes :
        ApiDone("IsFailed", name, IsFailed(markers, dirExists, name, io))

ApiGetStatus ==
    \E name \in ApiNames, io1 \in IOOutcomes, io2 \in IOOutcomes :
        LET s == GetStatus(markers, dirExists, name, io1, io2) IN
        ApiDone("GetStatus", name, FsResult(markers, dirExists, s.val, s.err))

ApiList ==
    \E io \in IOOutcomes : ApiDone("List", <<>>, List(markers, dirExists, io))

ApiRemoveAll ==
    \E io \in IOOutcomes : ApiDone("RemoveAll", <<>>, RemoveAll(markers, dirExists, io))

NextMarkers ==
    \/ ApiCreate
    \/ ApiCreateIfNotExists
    \/ ApiExists
    \/ ApiRemove
    \/ ApiMarkFailed
    \/ ApiClearFailure
    \/ ApiIsFailed
    \/ ApiGetStatus
    \/ ApiList
    \/ ApiRemoveAll

SpecMarkers == InitMarkers /\ [][NextMarkers]_vars

\* the marker store on a filesystem whose calls can fail with an I/O error
InitMarkersFaulty ==
    /\ markers = {}
    /\ dirExists \in BOOLEAN
    /\ faults = TRUE
    /\ markers0 = markers
    /\ pc = [p \in Procs |-> "idle"]
    /\ arg = [p \in Procs |-> [op |-> "none", name |-> <<>>, dir |-> FALSE]]
    /\ ret = [p \in Procs |-> NoRet]
    /\ EnsureIdle
    /\ RunIdle
    /\ OthersIdle

SpecMarkersFaulty == InitMarkersFaulty /\ [][NextMarkers]_vars

\* a name the marker store must refuse
Unsafe(name) ==
    \/ name = <<>>
    \/ \E i \in 1..Len(name) : name[i] = "/" \/ name[i] = "\\"
    \/ name = <<".">>
    \/ name = <<".", ".">>

\* the errors a filesystem call returns
IOErrors == {"mkdir", "create", "stat", "remove"}

\* C17: Create, CreateIfNotExists, Exists and Remove answer an unsafe name
\* with a validation error, never with the outcome of a filesystem call, and
\* leave the marker files and the marker directory as they were.
C17_UnsafeNamesRejected ==
    (arg[Client].op \in {"Create", "CreateIfNotExists", "Exists", "Remove"}
        /\ Unsafe(arg[Client].name)) =>
            /\ ret[Client].err \notin IOErrors \cup {NoError}
            /\ ret[Client].val = FALSE
            /\ markers = markers0
            /\ dirExists = arg[Client].dir

C17_Witness ==
    /\ arg[Client] = [op |-> "Create", name |-> <<".", ".">>, dir |-> FALSE]
    /\ ret[Client] = Ret(FALSE, "dots")
    /\ ~dirExists
    /\ markers = {}

\* C40: MarkFailed, ClearFailure, IsFailed and GetStatus answer an unsafe step
\* name with a validation error, never with the outcome of a filesystem
\* call, and leave the marker files and the marker directory as they were.
C40_FailureOpsRejectUnsafeNames ==
    (arg[Client].op \in {"MarkFailed", "ClearFailure", "IsFailed", "GetStatus"}
        /\ Unsafe(arg[Client].name)) =>
            /\ ret[Client].err \notin IOErrors \cup {NoError}
            /\ markers = markers0
            /\ dirExists = arg[Client].dir

\* the call the client made last, and the name it passed
LastOp == arg[Client].op
LastName == arg[Client].name

\* C21: Create of a valid name succeeds whether or not the marker existed,
\* leaves exactly the files that were there plus the marker, and a second
\* Create of the same name succeeds too and changes nothing more.
C21_CreateIdempotent ==
    /\ (LastOp = "Create" /\ validateMarkerName(LastName) = NoError) =>
          /\ ret[Client] = Ret(TRUE, NoError)
          /\ markers = markers0 \cup {LastName}
          /\ dirExists
    /\ \A name \in ApiNames :
          validateMarkerName(name) = NoError =>
              LET once == Create(markers, dirExists, name, "ok")
                  twice == Create(once.m, once.d, name, "ok")
              IN  /\ once.err = NoError
                  /\ twice.err = NoError
                  /\ twice.m = once.m
                  /\ twice.d = once.d

C21_Witness ==
    /\ LastOp = "Create"
    /\ LastName = <<"nfs-setup-complete">>
    /\ LastName \in markers0
    /\ ret[Client] = Ret(TRUE, NoError)
    /\ markers = markers0
    /\ Cardinality(markers) = 2

\* C22: Remove of a valid name that has no marker returns nil and changes
\* nothing; after a Remove that returned nil the marker is gone, Exists
\* answers (false, nil), and every other marker is as it was.
C22_RemoveMissingIsNoError ==
    (LastOp = "Remove" /\ validateMarkerName(LastName) = NoError) =>
        /\ LastName \notin markers0 =>
              /\ ret[Client].err = NoError
              /\ markers = markers0
              /\ dirExists = arg[Client].dir
        /\ ret[Client].err = NoError =>
              /\ markers = markers0 \ {LastName}
              /\ LET e == Exists(markers, dirExists, LastName, "ok")
                 IN  e.val = FALSE /\ e.err = NoError

C22_Witness ==
    /\ LastOp = "Remove"
    /\ LastName = <<"nfs-setup-complete">>
    /\ LastName \notin markers0
    /\ markers0 = {Failed(LastName)}
    /\ markers = markers0
    /\ ret[Client] = Ret(TRUE, NoError)

\* C23: MarkFailed, ClearFailure and IsFailed of a name touch no file but
\* the failure marker of that name, so the completion marker stays as it
\* was (IsFailed changes nothing at all); Create, CreateIfNotExists, Exists
\* and Remove of a name leave its failure marker as it was.
C23_FailureIndependent ==
    /\ LastOp \in {"MarkFailed", "ClearFailure", "IsFailed"} =>
          /\ markers \ {Failed(LastName)} = markers0 \ {Failed(LastName)}
          /\ LastName \in markers <=> LastName \in markers0
          /\ LastOp = "IsFailed" => markers = markers0
    /\ LastOp \in {"Create", "CreateIfNotExists", "Exists", "Remove"} =>
          (Failed(LastName) \in markers <=> Failed(LastName) \in markers0)

C23_Witness ==
    /\ LastOp = "MarkFailed"
    /\ LastName = <<"nfs-setup-complete">>
    /\ LastName \in markers0
    /\ LastName \in markers
    /\ Failed(LastName) \notin markers0
    /\ Failed(LastName) \in markers
    /\ ret[Client] = Ret(TRUE, NoError)

\* C28: List returns exactly the names that were created and not removed
\* since; after RemoveAll, List is empty and GetStatus is NotStarted for
\* every name; List and RemoveAll succeed on a missing marker directory.
C28_ListIsLedger ==
    /\ LET l == List(markers, dirExists, "ok") IN l.err = NoError /\ l.val = ledger
    /\ LastOp = "List" => ret[Client] = Ret(ledger, NoError)
    /\ LastOp = "RemoveAll" =>
          /\ ret[Client].err = NoError
          /\ List(markers, dirExists, "ok").val = {}
          /\ \A name \in ApiNames :
                LET g == GetStatus(markers, dirExists, name, "ok", "ok")
                IN  /\ g.val = StepNotStarted
                    /\ validateMarkerName(name) = NoError => g.err = NoError
    /\ (LastOp \in {"List", "RemoveAll"} /\ ~arg[Client].dir) =>
          /\ ret[Client].err = NoError
          /\ LastOp = "List" => ret[Client].val = {}

C28_Witness ==
    /\ LastOp = "List"
    /\ ret[Client] = Ret({<<"nfs-setup-complete">>, <<"nfs-setup-complete", "-failed">>}, NoError)
    /\ ledger = markers

\* C7: GetStatus(name) is Failed whenever name-failed exists, also when
\* name exists too; Completed iff name exists and name-failed does not;
\* NotStarted iff neither exists.
C7_FailurePrecedence ==
    arg[Client].op = "GetStatus" =>
        LET name == arg[Client].name
            failed == Failed(name) \in markers
            completed == name \in markers
            status == ret[Client].val
        IN  /\ failed => status = StepFailed
            /\ status = StepCompleted <=> (completed /\ ~failed)
            /\ status = StepNotStarted <=> (~completed /\ ~failed)

C7_Witness ==
    /\ arg[Client].op = "GetStatus"
    /\ arg[Client].name \in markers
    /\ Failed(arg[Client].name) \in markers
    /\ ret[Client] = Ret(StepFailed, NoError)

----------------------------------------------------------------------------
(* ConfigStore: Set and Delete rewrite the backing file through a temp     *)
(* file in the same directory and a rename.  internal/config/config.go is  *)
(* not among the sources; this part follows section 4.1 of the             *)
(* specification.  The file is a list of KEY=VALUE lines.                  *)

MaxCfgCalls == 3

CfgKeys == {"HOMELAB_USER", "NFS_SERVER"}

\* a value with a line feed in it
Spliced == "alice\nNFS_SERVER=evil"

CfgValues == {"alice", Spliced}

\* the characters of a value as Save prints them with %s: a line feed and
\* "=" are tokens of their own, every other token is a run of ordinary
\* characters
Text(value) ==
    IF value = Spliced THEN <<"alice", "\n", "NFS_SERVER", "=", "evil">> ELSE <<value>>

\* the order in which Save writes the keys
KeyOrder ==
    <<"HOMELAB_USER", "NFS_MOUNT_POINT", "NFS_SERVER", "SELECTED_SERVICES",
      "ENV_PUID", "ENV_PGID", "ENV_TZ", "ENV_APPDATA_PATH",
      "PLEX_CLAIM_TOKEN", "JELLYFIN_PUBLIC_URL", "OVERSEERR_API_KEY",
      "NEXTCLOUD_ADMIN_USER", "NEXTCLOUD_ADMIN_PASSWORD", "NEXTCLOUD_DB_PASSWORD",
      "NEXTCLOUD_TRUSTED_DOMAINS", "COLLABORA_PASSWORD", "COLLABORA_DOMAIN",
      "IMMICH_DB_PASSWORD", "POSTGRES_USER", "REDIS_PASSWORD">>

EmptyMap == [k \in {} |-> ""]

\* Save: fmt.Fprintf(tmpFile, "%s=%s\n", key, value) for every entry
RECURSIVE EntriesText(_, _)
EntriesText(data, ks) ==
    IF ks = <<>> THEN <<>>
    ELSE <<Head(ks), "=">> \o Text(data[Head(ks)]) \o <<"\n">> \o EntriesText(data, Tail(ks))

\* the lines of a text: the runs of tokens its line feeds end
RECURSIVE SplitLines(_)
SplitLines(text) ==
    IF text = <<>> THEN <<>>
    ELSE IF \A i \in 1..Len(text) : text[i] # "\n" THEN <<text>>
    ELSE LET i == CHOOSE j \in 1..Len(text) :
                      text[j] = "\n" /\ \A l \in 1..(j - 1) : text[l] # "\n"
         IN  <<SubSeq(text, 1, i - 1)>> \o SplitLines(SubSeq(text, i + 1, Len(text)))

\* Save: the lines of the file it writes
Serialize(data) ==
    SplitLines(EntriesText(data, SelectSeq(KeyOrder, LAMBDA k : k \in DOMAIN data)))

\* Load: a line is an entry when it is KEY=VALUE; comments and malformed
\* lines are skipped
IsEntry(line) == Len(line) >= 2 /\ line[2] = "=" /\ line[1] \notin {"#", "="}

\* the string the tokens after the first "=" of a line spell
ValueOf(tokens) ==
    IF tokens = <<>> THEN ""
    ELSE IF Len(tokens) = 1 THEN tokens[1]
    ELSE CHOOSE v \in CfgValues : Text(v) = tokens

\* Load: the last line of a key wins
Parse(lines) ==
    LET entries == {i \in 1..Len(lines) : IsEntry(lines[i])} IN
    [k \in {lines[i][1] : i \in entries} |->
        LET last == CHOOSE i \in entries :
                        /\ lines[i][1] = k
                        /\ \A j \in entries : lines[j][1] = k => j <= i
        IN  ValueOf(SubSeq(lines[last], 3, Len(lines[last])))]

MapSet(data, key, value) ==
    [k \in DOMAIN data \cup {key} |-> IF k = key THEN value ELSE data[k]]

MapDelete(data, key) == [k \in DOMAIN data \ {key} |-> data[k]]

\* the path Save writes before it renames it over the backing file
TempPathInPlace == "config"

TempPath == "config.tmp"

AllMaps == UNION {[ks -> CfgValues] : ks \in SUBSET CfgKeys}

InitConfig ==
    /\ markers = {}
    /\ dirExists = FALSE
    /\ faults = FALSE
    /\ markers0 = {}
    /\ pc = [p \in Procs |-> "idle"]
    /\ arg = [p \in Procs |-> <<>>]
    /\ ret = [p \in Procs |-> NoRet]
    /\ EnsureIdle
    /\ RunIdle
    /\ \E initial \in {Absent} \cup {File(Serialize(d)) : d \in AllMaps} :
          /\ cfgFs = [f \in {"config", "config.tmp"} |-> IF f = "config" THEN initial ELSE Absent]
          /\ cfgData = Parse(initial.lines)
          /\ cfgSeen = initial
          /\ cfgCommitted = {initial}
    /\ cfgPc = "idle"
    /\ cfgCall = NoCall
    /\ LockIdle
    /\ DryIdle
    /\ LaterIdle

marksVars == <<fsVars, procVars, ensureVars, runVars, laterVars>>

\* Save, first part: create (truncate) the temp file
SaveBegin(newData) ==
    /\ cfgData' = newData
    /\ cfgCall' = [before |-> cfgFs["config"], new |-> File(Serialize(newData)),
                   data |-> newData, crashAt |-> "none", n |-> cfgCall.n + 1]
    /\ cfgFs' = [cfgFs EXCEPT ![TempPath] = File(<<>>)]
    /\ cfgPc' = "writing"

\* Set(key, value): an empty key is rejected before anything changes
CfgSet ==
    /\ cfgPc = "idle"
    /\ cfgCall.n < MaxCfgCalls
    /\ \E key \in CfgKeys \cup {""}, value \in CfgValues :
        IF key = ""
        THEN UNCHANGED <<cfgFs, cfgData, cfgPc, cfgCall>>
        ELSE SaveBegin(MapSet(cfgData, key, value))
    /\ UNCHANGED <<marksVars, cfgSeen, cfgCommitted>>

\* Delete(key)
CfgDelete ==
    /\ cfgPc = "idle"
    /\ cfgCall.n < MaxCfgCalls
    /\ \E key \in CfgKeys : SaveBegin(MapDelete(cfgData, key))
    /\ UNCHANGED <<marksVars, cfgSeen, cfgCommitted>>

\* Save: write the next line
CfgWriteLine ==
    /\ cfgPc = "writing"
    /\ Len(cfgFs[TempPath].lines) < Len(cfgCall.new.lines)
    /\ cfgFs' = [cfgFs EXCEPT ![TempPath].lines =
                    Append(@, cfgCall.new.lines[Len(cfgFs[TempPath].lines) + 1])]
    /\ UNCHANGED <<marksVars, cfgData, cfgPc, cfgCall, cfgSeen, cfgCommitted>>

\* Save: everything is written; flush and close
CfgFlush ==
    /\ cfgPc = "writing"
    /\ Len(cfgFs[TempPath].lines) = Len(cfgCall.new.lines)
    /\ cfgPc' = "flushed"
    /\ UNCHANGED <<marksVars, cfgFs, cfgData, cfgCall, cfgSeen, cfgCommitted>>

\* Save: rename the temp file over the backing file
CfgRename ==
    /\ cfgPc = "flushed"
    /\ cfgFs' = IF TempPath = "config" THEN cfgFs
                ELSE [cfgFs EXCEPT !["config"] = cfgFs[TempPath], ![TempPath] = Absent]
    /\ cfgCommitted' = cfgCommitted \cup {cfgCall.new}
    /\ cfgPc' = "renamed"
    /\ UNCHANGED <<marksVars, cfgData, cfgCall, cfgSeen>>

\* Set / Delete returns nil
CfgReturn ==
    /\ cfgPc = "renamed"
    /\ cfgPc' = "idle"
    /\ UNCHANGED <<marksVars, cfgFs, cfgData, cfgCall, cfgSeen, cfgCommitted>>

\* the process dies inside Set / Delete; its memory is lost, the files stay
CfgCrash ==
    /\ cfgPc \in {"writing", "flushed", "renamed"}
    /\ cfgPc' = "crashed"
    /\ cfgCall' = [cfgCall EXCEPT !.crashAt = cfgPc]
    /\ cfgData' = EmptyMap
    /\ UNCHANGED <<marksVars, cfgFs, cfgSeen, cfgCommitted>>

\* the process ends between two calls; its memory is gone, the files stay
CfgExit ==
    /\ cfgPc = "idle"
    /\ cfgCall.crashAt = "none"
    /\ cfgPc' = "exited"
    /\ cfgCall' = [cfgCall EXCEPT !.crashAt = "exit", !.data = cfgData]
    /\ cfgData' = EmptyMap
    /\ UNCHANGED <<marksVars, cfgFs, cfgSeen, cfgCommitted>>

\* the schema version of this build: the default of CONFIG_VERSION
ConfigVersion == "1"

\* Load has no migration step: "Config Migration Not Handled", listed
\* under the remaining work
Migrate(data) == data

\* a new process: Load reads the backing file, a missing file is an empty store
CfgLoad ==
    /\ cfgPc \in {"crashed", "exited"}
    /\ cfgData' = Migrate(IF cfgFs["config"].exists THEN Parse(cfgFs["config"].lines)
                           ELSE EmptyMap)
    /\ cfgPc' = "idle"
    /\ UNCHANGED <<marksVars, cfgFs, cfgCall, cfgSeen, cfgCommitted>>

\* a reader in another process reads the backing file
CfgRead ==
    /\ cfgSeen' = cfgFs["config"]
    /\ cfgSeen' # cfgSeen
    /\ UNCHANGED <<marksVars, cfgFs, cfgData, cfgPc, cfgCall, cfgCommitted>>

NextConfig ==
    \/ CfgSet
    \/ CfgDelete
    \/ CfgWriteLine
    \/ CfgFlush
    \/ CfgRename
    \/ CfgReturn
    \/ CfgCrash
    \/ CfgExit
    \/ CfgLoad
    \/ CfgRead

SpecConfig == InitConfig /\ [][NextConfig]_vars

CrashedAt(where) == cfgPc = "crashed" /\ cfgCall.crashAt \in where

\* C10: before the rename, and after a crash before the rename, the backing
\* file is exactly what it was before the call; after the rename, and after
\* a crash after it, it is exactly the new content; the backing file and
\* what any reader saw of it are always a content that was written as a whole.
C10_AtomicRewrite ==
    /\ (cfgPc \in {"writing", "flushed"} \/ CrashedAt({"writing", "flushed"}))
           => cfgFs["config"] = cfgCall.before
    /\ (cfgPc = "renamed" \/ CrashedAt({"renamed"})) => cfgFs["config"] = cfgCall.new
    /\ cfgFs["config"] \in cfgCommitted
    /\ cfgSeen \in cfgCommitted

C10_Witness ==
    /\ CrashedAt({"writing"})
    /\ cfgFs["config.tmp"].exists
    /\ Len(cfgFs["config.tmp"].lines) = 1
    /\ Len(cfgCall.new.lines) = 2
    /\ cfgCall.before.exists
    /\ cfgCall.before # cfgCall.new
    /\ cfgFs["config"] = cfgCall.before
    /\ cfgSeen = cfgCall.before

\* C25: a process that starts after Set / Delete calls that all returned nil
\* reads back, with Load, exactly the map the last process had in memory,
\* so Get(k) returns (v, true) for the value v last set for k.
C25_PersistsAcrossRestart ==
    (cfgPc = "idle" /\ cfgCall.crashAt = "exit") => cfgData = cfgCall.data

\* C26: when Load has returned, the store is migrated: CONFIG_VERSION is
\* stored with the current schema version, in memory and in the backing
\* file, before any other method is served.
C26_MigratedOnLoad ==
    (cfgPc = "idle" /\ cfgCall.crashAt # "none") =>
        /\ "CONFIG_VERSION" \in DOMAIN cfgData
        /\ cfgData["CONFIG_VERSION"] = ConfigVersion
        /\ cfgFs["config"].exists
        /\ \E i \in 1..Len(cfgFs["config"].lines) :
              cfgFs["config"].lines[i] = <<"CONFIG_VERSION", "=", ConfigVersion>>

----------------------------------------------------------------------------
(* Config used by several goroutines of one process: every public method   *)
(* takes Config.mu (RLock for Get / GetOrDefault / Exists, Lock for Set /  *)
(* Delete) for its whole body.  Save rewrites the backing file in one      *)
(* step, as SpecConfig establishes.                                        *)

MaxStoreCalls == 3

\* the built-in defaults table
Defaults ==
    [k \in {"HOMELAB_BASE_DIR", "CONTAINER_RUNTIME", "NFS_MOUNT_POINT", "NFS_FSTAB_PATH",
            "NETWORK_TEST_RETRIES", "NETWORK_TEST_TIMEOUT", "CONFIG_VERSION",
            "WG_INTERFACE", "WG_LISTEN_PORT"} |->
        CASE k = "HOMELAB_BASE_DIR" -> "/srv/containers"
          [] k = "CONTAINER_RUNTIME" -> "podman"
          [] k = "NFS_MOUNT_POINT" -> "/mnt/nas"
          [] k = "NFS_FSTAB_PATH" -> "/etc/fstab"
          [] k = "NETWORK_TEST_RETRIES" -> "5"
          [] k = "NETWORK_TEST_TIMEOUT" -> "10"
          [] k = "CONFIG_VERSION" -> "1"
          [] k = "WG_INTERFACE" -> "wg0"
          [] k = "WG_LISTEN_PORT" -> "51820"]

\* keys and values the goroutines pass
StoreKeys == {"NFS_MOUNT_POINT", "HOMELAB_USER"}
StoreValues == {"/data"}
Fallback == "/custom"

ReadOps == {"Get", "GetOrDefault", "Exists"}
WriteOps == {"Set", "Delete"}

\* ensureLoaded: nil once the backing file has been read; a backing file
\* that exists but cannot be read makes Load fail every time
ensureLoaded(loaded) == IF loaded THEN NoError ELSE "eio"

\* GetOrDefault(key, fallback)
GetOrDefault(data, loaded, key, fallback) ==
    IF ensureLoaded(loaded) # NoError THEN fallback
    ELSE IF key \in DOMAIN data THEN data[key]
    ELSE IF key \in DOMAIN Defaults THEN Defaults[key]
    ELSE fallback

\* the value a reading method returns
ReadResult(op, data, loaded, key, value) ==
    CASE op = "GetOrDefault" ->
            [val |-> GetOrDefault(data, loaded, key, value), ok |-> TRUE, err |-> NoError]
      [] op = "Get" ->
            IF ensureLoaded(loaded) # NoError
            THEN [val |-> "", ok |-> FALSE, err |-> ensureLoaded(loaded)]
            ELSE IF key \in DOMAIN data
            THEN [val |-> data[key], ok |-> TRUE, err |-> NoError]
            ELSE [val |-> "", ok |-> FALSE, err |-> NoError]
      [] op = "Exists" ->
            [val |-> "", ok |-> ensureLoaded(loaded) = NoError /\ key \in DOMAIN data,
             err |-> NoError]

\* sync.RWMutex: when RLock and Lock return
CanRLock == mu.writers = {}

CanLockBesideReaders == mu.writers = {}

CanLock == mu.writers = {} /\ mu.readers = {}

StoreMaps == UNION {[ks -> StoreValues] : ks \in SUBSET StoreKeys}

InitStore ==
    /\ markers = {}
    /\ dirExists = FALSE
    /\ faults = FALSE
    /\ markers0 = {}
    /\ pc = [p \in Procs |-> "idle"]
    /\ arg = [p \in Procs |-> <<>>]
    /\ ret = [p \in Procs |-> NoRet]
    /\ EnsureIdle
    /\ RunIdle
    /\ DryIdle
    /\ LaterIdle
    /\ stLoaded \in BOOLEAN
    /\ \E d \in StoreMaps :
          /\ cfgFs = [f \in {"config", "config.tmp"} |->
                         IF f = "config" THEN File(Serialize(d)) ELSE Absent]
          /\ cfgData = IF stLoaded THEN d ELSE EmptyMap
          /\ cfgSeen = cfgFs["config"]
          /\ cfgCommitted = {cfgFs["config"]}
    /\ cfgPc = "idle"
    /\ cfgCall = NoCall
    /\ mu = Unlocked
    /\ gor = [p \in Procs |-> NoGo]
    /\ stCalls = 0

storeFrame ==
    <<fsVars, procVars, ensureVars, runVars, dryVars, bookVars, csVars, spVars, depVars, cfgPc, cfgCall, cfgSeen,
      stLoaded>>

\* the calls of a kind of method: method and arguments
CallsOf(ops) ==
    {c \in [op : ops, key : StoreKeys \cup {""}, value : StoreValues \cup {Fallback, ""}] :
        /\ c.key = "" => c.op = "Set"
        /\ c.value \in (IF c.op = "Set" THEN StoreValues
                         ELSE IF c.op = "GetOrDefault" THEN {Fallback} ELSE {""})}

\* a goroutine calls a method of the store and blocks in c.mu.RLock() or
\* c.mu.Lock(); which method, and its arguments, is drawn when the lock is
\* granted, where they are first used
GoCall(p) ==
    /\ gor[p].pc = "idle"
    /\ stCalls < MaxStoreCalls
    /\ stCalls' = stCalls + 1
    /\ \E at \in {"rlock", "lock"} : gor' = [gor EXCEPT ![p] = [NoGo EXCEPT !.pc = at]]
    /\ UNCHANGED <<storeFrame, mu, cfgFs, cfgData, cfgCommitted>>

\* c.mu.RLock() returns
GoRLock(p) ==
    /\ gor[p].pc = "rlock"
    /\ CanRLock
    /\ mu' = [mu EXCEPT !.readers = @ \cup {p}]
    /\ \E c \in CallsOf(ReadOps) :
          gor' = [gor EXCEPT ![p] = [pc |-> "read", op |-> c.op, key |-> c.key,
                                     value |-> c.value, out |-> NoOut]]
    /\ UNCHANGED <<storeFrame, stCalls, cfgFs, cfgData, cfgCommitted>>

\* the body of Get / GetOrDefault / Exists
GoRead(p) ==
    /\ gor[p].pc = "read"
    /\ gor' = [gor EXCEPT ![p].pc = "unlock",
                          ![p].out = ReadResult(gor[p].op, cfgData, stLoaded,
                                                gor[p].key, gor[p].value)]
    /\ UNCHANGED <<storeFrame, stCalls, mu, cfgFs, cfgData, cfgCommitted>>

\* c.mu.Lock() returns
GoLock(p) ==
    /\ gor[p].pc = "lock"
    /\ CanLock
    /\ mu' = [mu EXCEPT !.writers = @ \cup {p}]
    /\ \E c \in CallsOf(WriteOps) :
          gor' = [gor EXCEPT ![p] = [pc |-> "mutate", op |-> c.op, key |-> c.key,
                                     value |-> c.value, out |-> NoOut]]
    /\ UNCHANGED <<storeFrame, stCalls, cfgFs, cfgData, cfgCommitted>>

\* Set / Delete: validate, then change Config.data
GoMutate(p) ==
    /\ gor[p].pc = "mutate"
    /\ IF gor[p].op = "Set" /\ gor[p].key = ""
       THEN /\ gor' = [gor EXCEPT ![p].pc = "unlock", ![p].out.err = "empty key"]
            /\ UNCHANGED cfgData
       ELSE IF ensureLoaded(stLoaded) # NoError
       THEN /\ gor' = [gor EXCEPT ![p].pc = "unlock", ![p].out.err = ensureLoaded(stLoaded)]
            /\ UNCHANGED cfgData
       ELSE /\ gor' = [gor EXCEPT ![p].pc = "save"]
            /\ cfgData' = IF gor[p].op = "Set"
                          THEN MapSet(cfgData, gor[p].key, gor[p].value)
                          ELSE MapDelete(cfgData, gor[p].key)
    /\ UNCHANGED <<storeFrame, stCalls, mu, cfgFs, cfgCommitted>>

\* Set / Delete: Save rewrites the backing file
GoSave(p) ==
    /\ gor[p].pc = "save"
    /\ cfgFs' = [cfgFs EXCEPT !["config"] = File(Serialize(cfgData))]
    /\ gor' = [gor EXCEPT ![p].pc = "unlock", ![p].out.ok = TRUE]
    /\ UNCHANGED <<storeFrame, stCalls, mu, cfgData, cfgCommitted>>

\* the deferred RUnlock / Unlock, and the return
GoUnlock(p) ==
    /\ gor[p].pc = "unlock"
    /\ mu' = [readers |-> mu.readers \ {p}, writers |-> mu.writers \ {p}]
    /\ gor' = [gor EXCEPT ![p] = NoGo]
    /\ UNCHANGED <<storeFrame, stCalls, cfgFs, cfgData, cfgCommitted>>

NextStore ==
    \E p \in Procs :
        \/ GoCall(p)
        \/ GoRLock(p)
        \/ GoRead(p)
        \/ GoLock(p)
        \/ GoMutate(p)
        \/ GoSave(p)
        \/ GoUnlock(p)

SpecStore == InitStore /\ [][NextStore]_vars

\* goroutine p is inside the body of a method of kind ops
Inside(p, ops) == gor[p].op \in ops /\ gor[p].pc \in {"read", "mutate", "save", "unlock"}

\* C11: while a Set or Delete is between the start of its in-memory
\* mutation and the end of its file rewrite, no other method of the store is
\* executing; only readers overlap with readers.
C11_SingleWriter ==
    \A p \in Procs :
        Inside(p, WriteOps) =>
            \A q \in Procs \ {p} : ~Inside(q, ReadOps \cup WriteOps)

C11_Witness ==
    \E p, q, r \in Procs :
        /\ gor[p].op = "Set" /\ gor[p].pc = "save"
        /\ gor[q].pc = "rlock"
        /\ gor[r].pc = "lock"

\* C12: GetOrDefault returns the stored value if the key is stored, else
\* the entry of Defaults if the key has one, else the caller's fallback.
C12_ResolutionOrder ==
    \A p \in Procs :
        (gor[p].op = "GetOrDefault" /\ gor[p].pc = "unlock") =>
            /\ gor[p].out.err = NoError
            /\ gor[p].out.val =
                  IF gor[p].key \in DOMAIN cfgData THEN cfgData[gor[p].key]
                  ELSE IF gor[p].key \in DOMAIN Defaults THEN Defaults[gor[p].key]
                  ELSE gor[p].value

----------------------------------------------------------------------------
(* DryRunFileSystem: the decorator in front of FileSystem.  The wrapper is *)
(* translated from filesystem_dryrun.go; FileSystem itself is modelled by  *)
(* what its method names say, on a tree of three paths.                    *)

DryPaths == {"/srv", "/srv/f", "/srv/f.bak"}

\* the paths the step bodies pass; /srv/f.bak is where FileSystem.BackupFile
\* puts its copy
CallPaths == {"/srv", "/srv/f"}

\* the paths at or below a path
Under(path) == IF path = "/srv" THEN DryPaths ELSE {path}

\* arguments the callers pass
NewOwner == "core"
NewPerms == "700"
NewContent == "new"
CopySource == "/srv/f"

Dir(owner, perms) == [kind |-> "dir", owner |-> owner, perms |-> perms, content |-> ""]
RegularFile(owner, perms, content) ==
    [kind |-> "file", owner |-> owner, perms |-> perms, content |-> content]
Symlink(target) == [kind |-> "link", owner |-> "root", perms |-> "777", content |-> target]

EmptyTree == [p \in DryPaths |-> NoEntry]
SeededTree ==
    [p \in DryPaths |->
        CASE p = "/srv" -> Dir("root", "755")
          [] p = "/srv/f" -> RegularFile("root", "644", "old")
          [] OTHER -> NoEntry]

DryMutOps ==
    {"EnsureDirectory", "Chown", "ChownRecursive", "Chmod", "ChmodRecursive", "WriteFile",
     "RemoveDirectory", "RemoveFile", "CopyFile", "CreateSymlink", "BackupFile"}

DryReadOps ==
    {"FileExists", "DirectoryExists", "GetOwner", "GetPermissions", "GetDiskUsage",
     "GetDiskUsageHuman", "CountFiles", "ListDirectory", "GetFileSize", "IsMount"}

FsOk(t, val) == [t |-> t, out |-> [val |-> val, ok |-> TRUE, err |-> NoError]]
FsErr(t, err) == [t |-> t, out |-> [val |-> "", ok |-> FALSE, err |-> err]]

\* a path can be created when its parent directory exists
HasParent(t, path) == path = "/srv" \/ t["/srv"].kind = "dir"

\* FileSystem: the mutating methods
FsMutate(t, op, path, io) ==
    IF io # "ok" THEN FsErr(t, io)
    ELSE CASE op = "EnsureDirectory" ->
                IF t[path].kind \in {"file", "link"} THEN FsErr(t, "eexist")
                ELSE FsOk([p \in DryPaths |->
                             IF p = path \/ (p = "/srv" /\ t[p].kind = "none")
                             THEN Dir(NewOwner, NewPerms) ELSE t[p]], "")
           [] op \in {"Chown", "ChownRecursive"} ->
                IF t[path].kind = "none" THEN FsErr(t, "enoent")
                ELSE FsOk([p \in DryPaths |->
                             IF t[p].kind # "none" /\
                                (p = path \/ (op = "ChownRecursive" /\ p \in Under(path)))
                             THEN [t[p] EXCEPT !.owner = NewOwner] ELSE t[p]], "")
           [] op \in {"Chmod", "ChmodRecursive"} ->
                IF t[path].kind = "none" THEN FsErr(t, "enoent")
                ELSE FsOk([p \in DryPaths |->
                             IF t[p].kind # "none" /\
                                (p = path \/ (op = "ChmodRecursive" /\ p \in Under(path)))
                             THEN [t[p] EXCEPT !.perms = NewPerms] ELSE t[p]], "")
           [] op = "WriteFile" ->
                IF t[path].kind = "dir" \/ ~HasParent(t, path) THEN FsErr(t, "eio")
                ELSE FsOk([t EXCEPT ![path] = RegularFile("root", NewPerms, NewContent)], "")
           [] op = "RemoveDirectory" ->
                FsOk([p \in DryPaths |-> IF p \in Under(path) THEN NoEntry ELSE t[p]], "")
           [] op = "RemoveFile" ->
                IF t[path].kind = "dir" THEN FsErr(t, "eisdir")
                ELSE FsOk([t EXCEPT ![path] = NoEntry], "")
           [] op = "CopyFile" ->
                IF t[CopySource].kind # "file" \/ t[path].kind = "dir" THEN FsErr(t, "enoent")
                ELSE FsOk([t EXCEPT ![path] = t[CopySource]], "")
           [] op = "CreateSymlink" ->
                IF t[path].kind # "none" \/ ~HasParent(t, path) THEN FsErr(t, "eexist")
                ELSE FsOk([t EXCEPT ![path] = Symlink(CopySource)], "")
           [] op = "BackupFile" ->
                IF t[path].kind # "file" THEN FsErr(t, "enoent")
                ELSE FsOk([t EXCEPT !["/srv/f.bak"] = t[path]], "/srv/f.bak")

\* how many regular files lie at or below a path
CountBelow(t, path) == Cardinality({p \in Under(path) : t[p].kind = "file"})

\* FileSystem: the read-only methods; numbers and lists are returned in
\* their printed form
FsRead(t, op, path, io) ==
    IF io # "ok" THEN FsErr(t, io).out
    ELSE CASE op = "FileExists" -> [val |-> "", ok |-> t[path].kind = "file", err |-> NoError]
           [] op = "DirectoryExists" -> [val |-> "", ok |-> t[path].kind = "dir", err |-> NoError]
           [] op = "IsMount" -> [val |-> "", ok |-> FALSE, err |-> NoError]
           [] op = "GetOwner" ->
                IF t[path].kind = "none" THEN FsErr(t, "enoent").out
                ELSE FsOk(t, t[path].owner).out
           [] op = "GetPermissions" ->
                IF t[path].kind = "none" THEN FsErr(t, "enoent").out
                ELSE FsOk(t, t[path].perms).out
           [] op = "GetFileSize" ->
                IF t[path].kind # "file" THEN FsErr(t, "enoent").out
                ELSE FsOk(t, t[path].content).out
           [] op = "ListDirectory" ->
                IF t[path].kind # "dir" THEN FsErr(t, "enotdir").out
                ELSE FsOk(t, IF t["/srv/f"].kind # "none" THEN "f" ELSE "").out
           [] op \in {"CountFiles", "GetDiskUsage", "GetDiskUsageHuman"} ->
                IF t[path].kind = "none" THEN FsErr(t, "enoent").out
                ELSE FsOk(t, CASE CountBelow(t, path) = 0 -> "0"
                               [] CountBelow(t, path) = 1 -> "1"
                               [] OTHER -> "2").out

\* what a mutating method of the wrapper returns in dry-run mode
DryValue(op, path) == IF op = "BackupFile" THEN path \o ".backup.DRYRUN" ELSE ""

\* a mutating method of DryRunFileSystem: log and return success in dry-run
\* mode, delegate otherwise
DryMutatePassThrough(d, t, op, path, io) ==
    [r |-> FsMutate(t, op, path, io), delegated |-> {op}, logged |-> {}]

DryMutate(d, t, op, path, io) ==
    IF d
    THEN [r |-> FsOk(t, DryValue(op, path)), delegated |-> {}, logged |-> {<<op, path>>}]
    ELSE [r |-> FsMutate(t, op, path, io), delegated |-> {op}, logged |-> {}]

\* a read-only method of DryRunFileSystem: always delegates
DryReadStubbed(d, t, op, path, io) == IF d THEN NoOut ELSE FsRead(t, op, path, io)

DryRead(d, t, op, path, io) == FsRead(t, op, path, io)

InitDry ==
    /\ markers = {}
    /\ dirExists = FALSE
    /\ faults = FALSE
    /\ markers0 = {}
    /\ pc = [p \in Procs |-> "idle"]
    /\ arg = [p \in Procs |-> <<>>]
    /\ ret = [p \in Procs |-> NoRet]
    /\ EnsureIdle
    /\ RunIdle
    /\ LockIdle
    /\ LaterIdle
    /\ cfgFs = [f \in {"config", "config.tmp"} |-> Absent]
    /\ cfgData = EmptyMap
    /\ cfgPc = "idle"
    /\ cfgCall = NoCall
    /\ cfgSeen = Absent
    /\ cfgCommitted = {Absent}
    /\ dryRun \in BOOLEAN
    /\ tree \in {EmptyTree, SeededTree}
    /\ tree0 = tree
    /\ fsCalls = {}
    /\ uiLog = {}
    /\ dryOut = NoDryCall

dryFrame ==
    <<fsVars, procVars, ensureVars, runVars, cfgVars, lockVars, bookVars, csVars, spVars, depVars,
      dryRun, tree0>>

\* a step body calls a mutating method of the wrapper
DryMutateCall ==
    /\ \E op \in DryMutOps, path \in CallPaths, io \in IOOutcomes :
        LET c == DryMutate(dryRun, tree, op, path, io) IN
        /\ tree' = c.r.t
        /\ fsCalls' = c.delegated
        /\ uiLog' = c.logged
        /\ dryOut' = [op |-> op, path |-> path, ret |-> c.r.out, direct |-> NoOut,
                      changed |-> c.r.t # tree]
    /\ UNCHANGED dryFrame

\* a step body calls a read-only method of the wrapper; direct is what
\* FileSystem itself answers in the same state
DryReadCall ==
    /\ \E op \in DryReadOps, path \in CallPaths, io \in IOOutcomes :
        /\ dryOut' = [op |-> op, path |-> path, ret |-> DryRead(dryRun, tree, op, path, io),
                      direct |-> FsRead(tree, op, path, io), changed |-> FALSE]
        /\ fsCalls' = {op}
        /\ uiLog' = {}
    /\ UNCHANGED <<dryFrame, tree>>

NextDry == DryMutateCall \/ DryReadCall

SpecDry == InitDry /\ [][NextDry]_vars

\* C13: in dry-run mode no mutating method reaches FileSystem, the
\* filesystem stays what it was, and every mutating call returns success.
C13_DryRunPurity ==
    dryRun =>
        /\ tree = tree0
        /\ dryOut.op \in DryMutOps =>
              /\ fsCalls = {}
              /\ ~dryOut.changed
              /\ dryOut.ret.err = NoError
              /\ uiLog = {<<dryOut.op, dryOut.path>>}

C13_Witness ==
    /\ dryRun
    /\ tree = SeededTree
    /\ dryOut.op = "RemoveDirectory"
    /\ dryOut.path = "/srv"
    /\ dryOut.ret.err = NoError

\* C14: a read-only method answers in dry-run mode exactly what it answers
\* in live mode on the same filesystem, namely what FileSystem answers, and
\* leaves the filesystem as it was.
C14_ReadsIndistinguishable ==
    /\ \A op \in DryReadOps, path \in DryPaths, io \in {"ok", "eio"} :
          DryRead(TRUE, tree, op, path, io) = DryRead(FALSE, tree, op, path, io)
    /\ dryOut.op \in DryReadOps => (dryOut.ret = dryOut.direct /\ ~dryOut.changed)

C14_Witness ==
    /\ dryRun
    /\ dryOut.op = "GetOwner"
    /\ dryOut.path = "/srv/f"
    /\ dryOut.ret = [val |-> "root", ok |-> TRUE, err |-> NoError]

----------------------------------------------------------------------------
(* ContainerSetup.Run, the body of the container step: it selects the      *)
(* stacks, checks in non-interactive mode that the configuration holds     *)
(* what they require, copies the compose templates, asks for or reads the  *)
(* values of every stack, writes the .env files and creates the marker.    *)
(* Finding and copying files is a black box that succeeds or fails.        *)

ContainerMarker == <<"container-setup-complete">>

\* the stacks DiscoverStacks finds, sorted by name
StackNames == <<"cloud", "media", "web">>

stackRequiredConfigKeys(stack) ==
    IF stack = "cloud"
    THEN <<"NEXTCLOUD_ADMIN_PASSWORD", "NEXTCLOUD_DB_PASSWORD", "COLLABORA_PASSWORD",
           "IMMICH_DB_PASSWORD", "REDIS_PASSWORD">>
    ELSE <<>>

configFlagHints(key) ==
    CASE key = "NEXTCLOUD_ADMIN_PASSWORD" -> "--nextcloud-admin-password"
      [] key = "NEXTCLOUD_DB_PASSWORD" -> "--nextcloud-db-password"
      [] key = "COLLABORA_PASSWORD" -> "--collabora-password"
      [] key = "IMMICH_DB_PASSWORD" -> "--immich-db-password"
      [] key = "REDIS_PASSWORD" -> "--redis-password"
      [] OTHER -> ""

configValueDescriptions(key) ==
    CASE key = "NEXTCLOUD_ADMIN_PASSWORD" -> "Nextcloud admin password"
      [] key = "NEXTCLOUD_DB_PASSWORD" -> "Nextcloud database password"
      [] key = "COLLABORA_PASSWORD" -> "Collabora admin password"
      [] key = "IMMICH_DB_PASSWORD" -> "Immich database password"
      [] key = "REDIS_PASSWORD" -> "Redis password"
      [] OTHER -> ""

Err(msg) == [NoErr EXCEPT !.msg = msg]

\* the error ensureNonInteractiveRequirements returns for a key
RequiresError(key) ==
    IF configFlagHints(key) # ""
    THEN [msg |-> "non-interactive mode requires (set via or config key)",
          desc |-> IF configValueDescriptions(key) = "" THEN key
                   ELSE configValueDescriptions(key),
          flag |-> configFlagHints(key), key |-> key]
    ELSE [msg |-> "non-interactive mode requires config value", desc |-> "", flag |-> "",
          key |-> key]

\* the keys the loops of ensureNonInteractiveRequirements visit, in order
RECURSIVE RequiredKeys(_)
RequiredKeys(stacks) ==
    IF stacks = <<>> THEN <<>>
    ELSE stackRequiredConfigKeys(Head(stacks)) \o RequiredKeys(Tail(stacks))

ensureInteractiveRequirements(nonInteractive, selectedStacks, data) ==
    IF nonInteractive THEN NoErr
    ELSE LET keys == RequiredKeys(selectedStacks)
             empty == {i \in 1..Len(keys) : GetOrDefault(data, TRUE, keys[i], "") = ""}
         IN  IF empty = {} THEN NoErr
             ELSE RequiresError(keys[CHOOSE i \in empty : \A j \in empty : i <= j])

ensureNonInteractiveRequirements(nonInteractive, selectedStacks, data) ==
    IF ~nonInteractive THEN NoErr
    ELSE LET keys == RequiredKeys(selectedStacks)
             empty == {i \in 1..Len(keys) : GetOrDefault(data, TRUE, keys[i], "") = ""}
         IN  IF empty = {} THEN NoErr
             ELSE RequiresError(keys[CHOOSE i \in empty : \A j \in empty : i <= j])

\* strings.Join(names, " ")
RECURSIVE Join(_)
Join(names) ==
    IF names = <<>> THEN ""
    ELSE IF Len(names) = 1 THEN names[1]
    ELSE names[1] \o " " \o Join(Tail(names))

\* what the user types at the prompts of one stack
Typed == {"", "pw"}

\* the values configure<Stack>Env asks for: key, default, required, secret,
\* and whether an empty value is stored too
Ask(key, default, required, secret, always) ==
    [key |-> key, default |-> default, required |-> required, secret |-> secret,
     always |-> always]

StackPrompts(stack) ==
    CASE stack = "media" ->
            <<Ask("PLEX_CLAIM_TOKEN", "", FALSE, FALSE, FALSE),
              Ask("JELLYFIN_PUBLIC_URL", "", FALSE, FALSE, FALSE)>>
      [] stack = "web" -> <<Ask("OVERSEERR_API_KEY", "", FALSE, FALSE, FALSE)>>
      [] stack = "cloud" ->
            <<Ask("NEXTCLOUD_ADMIN_USER", "admin", FALSE, FALSE, TRUE),
              Ask("NEXTCLOUD_ADMIN_PASSWORD", "", TRUE, TRUE, TRUE),
              Ask("NEXTCLOUD_DB_PASSWORD", "", TRUE, TRUE, TRUE),
              Ask("NEXTCLOUD_TRUSTED_DOMAINS", "localhost", FALSE, FALSE, TRUE),
              Ask("COLLABORA_PASSWORD", "", TRUE, TRUE, TRUE),
              Ask("IMMICH_DB_PASSWORD", "", TRUE, TRUE, TRUE),
              Ask("POSTGRES_USER", "homelab", FALSE, FALSE, TRUE),
              Ask("REDIS_PASSWORD", "", TRUE, TRUE, TRUE)>>
      [] OTHER -> <<>>

\* strings.ReplaceAll(domain, ".", "\\.")
EscapeDots(domain) ==
    IF domain = "cloud.example.com" THEN "cloud\\.example\\.com" ELSE domain

\* promptOrConfigValue: the value, or no value and an error
promptOrConfigValue(nonInteractive, data, ask, typed) ==
    LET value == IF nonInteractive THEN GetOrDefault(data, TRUE, ask.key, ask.default)
                 ELSE IF typed = "" /\ ~ask.secret THEN ask.default
                 ELSE typed
    IN  IF ask.required /\ value = "" THEN [value |-> "", ok |-> FALSE]
        ELSE [value |-> value, ok |-> TRUE]

\* configure<Stack>Env from its i-th prompt on: the map it leaves in
\* Config.data and the keys it prompted for; it returns at the first error
RECURSIVE ConfigureFrom(_, _, _, _, _, _)
ConfigureFrom(nonInteractive, data, asked, prompts, i, typed) ==
    IF i > Len(prompts) THEN [data |-> data, asked |-> asked]
    ELSE LET ask == prompts[i]
             v == promptOrConfigValue(nonInteractive, data, ask, typed)
             seen == IF nonInteractive THEN asked ELSE asked \cup {ask.key}
         IN  IF ~v.ok THEN [data |-> data, asked |-> seen]
             ELSE LET d1 == IF ask.always \/ v.value # "" THEN MapSet(data, ask.key, v.value)
                            ELSE data
                      d2 == IF ask.key = "COLLABORA_PASSWORD"
                            THEN MapSet(d1, "COLLABORA_DOMAIN",
                                        EscapeDots(d1["NEXTCLOUD_TRUSTED_DOMAINS"]))
                            ELSE d1
                  IN  ConfigureFrom(nonInteractive, d2, seen, prompts, i + 1, typed)

\* the loop of Run over the selected stacks; an error of a stack is only
\* warned about
RECURSIVE ConfigureStacks(_, _, _, _, _)
ConfigureStacks(nonInteractive, data, asked, stacks, typed) ==
    IF stacks = <<>> THEN [data |-> data, asked |-> asked]
    ELSE LET c == ConfigureFrom(nonInteractive, data, asked, StackPrompts(Head(stacks)), 1,
                                typed)
         IN  ConfigureStacks(nonInteractive, c.data, c.asked, Tail(stacks), typed)

\* the configurations the step starts from
SetupMaps ==
    {d \in UNION {[ks -> {"", "pw"}] :
                     ks \in SUBSET {"HOMELAB_USER", "NEXTCLOUD_ADMIN_PASSWORD",
                                    "NEXTCLOUD_DB_PASSWORD", "REDIS_PASSWORD"}} :
        "HOMELAB_USER" \in DOMAIN d => d["HOMELAB_USER"] # ""}

\* the other required values are in place
Seeded(d) ==
    [k \in DOMAIN d \cup {"COLLABORA_PASSWORD", "IMMICH_DB_PASSWORD"} |->
        IF k \in DOMAIN d THEN d[k] ELSE "pw"]

InitContainer ==
    /\ markers \in {{}, {ContainerMarker}}
    /\ dirExists = (markers # {})
    /\ faults = FALSE
    /\ markers0 = markers
    /\ pc = [p \in Procs |-> "idle"]
    /\ arg = [p \in Procs |-> <<>>]
    /\ ret = [p \in Procs |-> NoRet]
    /\ EnsureIdle
    /\ interactive \in BOOLEAN
    /\ run = [p \in Procs |-> NoRun]
    /\ DryIdle
    /\ LaterIdle
    /\ mu = Unlocked
    /\ gor = [p \in Procs |-> NoGo]
    /\ stLoaded = TRUE
    /\ stCalls = 0
    /\ \E d \in SetupMaps :
          /\ cfgData = Seeded(d)
          /\ cfgFs = [f \in {"config", "config.tmp"} |->
                         IF f = "config" THEN File(Serialize(Seeded(d))) ELSE Absent]
          /\ cfgSeen = File(Serialize(Seeded(d)))
          /\ cfgCommitted = {File(Serialize(Seeded(d)))}
    /\ cfgPc = "idle"
    /\ cfgCall = NoCall

csFrame ==
    <<faults, markers0, procVars, ensureVars, runVars, cfgPc, cfgCall, cfgSeen, cfgCommitted,
      lockVars, dryVars, bookVars, spVars, depVars>>

\* Run returns err
CsDone(err) == cs' = [cs EXCEPT !.pc = "done", !.err = err]

\* Config.Set of every changed key, each a rewrite of the backing file
CsStore(data) ==
    /\ cfgData' = data
    /\ cfgFs' = [cfgFs EXCEPT !["config"] = File(Serialize(data))]

\* Run: check the completion marker
CsRun ==
    /\ cs.pc \in {"idle", "done"}
    /\ cs.calls < MaxRuns
    /\ \E io \in IOOutcomes :
        LET r == Exists(markers, dirExists, ContainerMarker, io)
            fresh == [NoSetup EXCEPT !.calls = cs.calls + 1]
        IN  cs' = IF r.err # NoError THEN [fresh EXCEPT !.pc = "done", !.err = Err("failed to check marker")]
                  ELSE IF r.val THEN [fresh EXCEPT !.pc = "done"]
                  ELSE [fresh EXCEPT !.pc = "user"]
    /\ UNCHANGED <<csFrame, markers, dirExists, interactive, cfgData, cfgFs>>

\* Run: the homelab user must be configured
CsUser ==
    /\ cs.pc = "user"
    /\ IF GetOrDefault(cfgData, stLoaded, "HOMELAB_USER", "") = ""
       THEN CsDone(Err("homelab user not configured"))
       ELSE cs' = [cs EXCEPT !.pc = "templates"]
    /\ UNCHANGED <<csFrame, markers, dirExists, interactive, cfgData, cfgFs>>

\* Run: FindTemplateDirectory and DiscoverStacks
CsTemplates ==
    /\ cs.pc = "templates"
    /\ \E outcome \in {"ok", "failed to find templates", "failed to discover stacks"} :
        IF outcome = "ok" THEN cs' = [cs EXCEPT !.pc = "select"] ELSE CsDone(Err(outcome))
    /\ UNCHANGED <<csFrame, markers, dirExists, interactive, cfgData, cfgFs>>

\* Run: SelectStacks; the selection is saved as SELECTED_SERVICES
CsSelect ==
    /\ cs.pc = "select"
    /\ \/ /\ CsDone(Err("failed to prompt for stack selection"))
          /\ UNCHANGED <<cfgData, cfgFs>>
       \/ \E chosen \in SUBSET {StackNames[i] : i \in 1..Len(StackNames)} :
            LET selected == SelectSeq(StackNames, LAMBDA n : n \in chosen) IN
            IF chosen = {}
            THEN CsDone(Err("no stacks selected")) /\ UNCHANGED <<cfgData, cfgFs>>
            ELSE /\ cs' = [cs EXCEPT !.pc = "require", !.selected = selected]
                 /\ CsStore(MapSet(cfgData, "SELECTED_SERVICES", Join(selected)))
    /\ UNCHANGED <<csFrame, markers, dirExists, interactive>>

\* Run: ensureNonInteractiveRequirements
CsRequire ==
    /\ cs.pc = "require"
    /\ LET err == ensureNonInteractiveRequirements(~interactive, cs.selected, cfgData) IN
       IF err # NoErr THEN CsDone(err) ELSE cs' = [cs EXCEPT !.pc = "copy"]
    /\ UNCHANGED <<csFrame, markers, dirExists, interactive, cfgData, cfgFs>>

\* Run: CopyTemplates; when it fails some templates may be in place
CsCopy ==
    /\ cs.pc = "copy"
    /\ \/ cs' = [cs EXCEPT !.pc = "baseenv", !.copied = TRUE]
       \/ \E some \in BOOLEAN :
            cs' = [cs EXCEPT !.pc = "done", !.err = Err("failed to copy templates"),
                             !.copied = some]
    /\ UNCHANGED <<csFrame, markers, dirExists, interactive, cfgData, cfgFs>>

\* Run: CreateBaseEnvConfig; it fails when its first Config.Set does
CsBaseEnv ==
    /\ cs.pc = "baseenv"
    /\ \/ /\ LET puid == GetOrDefault(cfgData, stLoaded, "PUID", "1000")
                 pgid == GetOrDefault(cfgData, stLoaded, "PGID", "1000")
                 tz == GetOrDefault(cfgData, stLoaded, "TZ", "America/Chicago")
                 appdataPath == GetOrDefault(cfgData, stLoaded, "APPDATA_PATH",
                                             "/var/lib/containers/appdata")
             IN  CsStore(MapSet(MapSet(MapSet(MapSet(cfgData, "ENV_PUID", puid),
                                              "ENV_PGID", pgid),
                                       "ENV_TZ", tz), "ENV_APPDATA_PATH", appdataPath))
          /\ cs' = [cs EXCEPT !.pc = "configure"]
       \/ /\ CsDone(Err("failed to create base config"))
          /\ UNCHANGED <<cfgData, cfgFs>>
    /\ UNCHANGED <<csFrame, markers, dirExists, interactive>>

\* Run: ConfigureStackEnv for each selected stack
CsConfigure ==
    /\ cs.pc = "configure"
    /\ \E typed \in (IF interactive THEN Typed ELSE {""}) :
        LET c == ConfigureStacks(~interactive, cfgData, {}, cs.selected, typed) IN
        /\ CsStore(c.data)
        /\ cs' = [cs EXCEPT !.pc = "envfiles", !.prompts = c.asked]
    /\ UNCHANGED <<csFrame, markers, dirExists, interactive>>

\* Run: CreateEnvFiles; when it fails some .env files may be written
CsEnvFilesWarnOnly ==
    /\ cs.pc = "envfiles"
    /\ \E some \in BOOLEAN : cs' = [cs EXCEPT !.pc = "mark", !.envFiles = some]
    /\ UNCHANGED <<csFrame, markers, dirExists, interactive, cfgData, cfgFs>>

CsEnvFiles ==
    /\ cs.pc = "envfiles"
    /\ \/ cs' = [cs EXCEPT !.pc = "mark", !.envFiles = TRUE]
       \/ \E some \in BOOLEAN :
            cs' = [cs EXCEPT !.pc = "done", !.err = Err("failed to create .env files"),
                             !.envFiles = some]
    /\ UNCHANGED <<csFrame, markers, dirExists, interactive, cfgData, cfgFs>>

\* Run: create the completion marker
CsMark ==
    /\ cs.pc = "mark"
    /\ \E io \in IOOutcomes :
        LET r == Create(markers, dirExists, ContainerMarker, io) IN
        /\ markers' = r.m
        /\ dirExists' = r.d
        /\ CsDone(IF r.err # NoError THEN Err("failed to create completion marker") ELSE NoErr)
    /\ UNCHANGED <<csFrame, interactive, cfgData, cfgFs>>

NextContainer ==
    \/ CsRun
    \/ CsUser
    \/ CsTemplates
    \/ CsSelect
    \/ CsRequire
    \/ CsCopy
    \/ CsBaseEnv
    \/ CsConfigure
    \/ CsEnvFiles
    \/ CsMark

SpecContainer == InitContainer /\ [][NextContainer]_vars

\* the required keys of the selected stacks that are missing or empty
Lacking ==
    LET keys == RequiredKeys(cs.selected) IN
    SelectSeq(keys, LAMBDA k : k \notin DOMAIN cfgData \/ cfgData[k] = "")

\* C27: in non-interactive mode, once the stacks are selected and a key
\* they require is missing or empty, Run goes no further than the check: it
\* returns an error naming the first such key and its flag, no template is
\* copied, no .env file written, no value prompted for, and the completion
\* marker is not created.
C27_FailFast ==
    (~interactive /\ cs.selected # <<>> /\ cs.pc # "require" /\ Lacking # <<>>) =>
        /\ cs.pc = "done"
        /\ cs.err.key = Lacking[1]
        /\ cs.err.flag = configFlagHints(Lacking[1])
        /\ cs.err.flag # ""
        /\ ~cs.copied
        /\ ~cs.envFiles
        /\ cs.prompts = {}
        /\ ContainerMarker \notin markers

C27_Witness ==
    /\ ~interactive
    /\ cs.selected = <<"cloud", "web">>
    /\ cs.pc = "done"
    /\ "NEXTCLOUD_ADMIN_PASSWORD" \in DOMAIN cfgData
    /\ cfgData["NEXTCLOUD_ADMIN_PASSWORD"] = "pw"
    /\ "REDIS_PASSWORD" \notin DOMAIN cfgData
    /\ "NEXTCLOUD_DB_PASSWORD" \in DOMAIN cfgData
    /\ cfgData["NEXTCLOUD_DB_PASSWORD"] = ""
    /\ cs.err.key = "NEXTCLOUD_DB_PASSWORD"
    /\ cs.err.flag = "--nextcloud-db-password"
    /\ cfgData["SELECTED_SERVICES"] = "cloud web"
    /\ markers = {}

\* the completion marker is there and was not when the run began
MarkedHere == ContainerMarker \in markers /\ ContainerMarker \notin markers0

\* C37: Run creates container-setup-complete only as its last action: the
\* marker is not there while Run is at work nor after it returned an error,
\* and the invocation that created it found the homelab user and the
\* templates, selected stacks, copied the templates, stored the base
\* settings and wrote the .env files, whatever ConfigureStackEnv did.
C37_MarkerLast ==
    /\ cs.pc \notin {"idle", "done"} => ~MarkedHere
    /\ (cs.pc = "done" /\ cs.err # NoErr) => ~MarkedHere
    /\ (cs.pc = "done" /\ cs.err = NoErr /\ cs.selected # <<>>) =>
          /\ MarkedHere
          /\ GetOrDefault(cfgData, stLoaded, "HOMELAB_USER", "") # ""
          /\ cfgData["SELECTED_SERVICES"] = Join(cs.selected)
          /\ cs.copied
          /\ {"ENV_PUID", "ENV_PGID", "ENV_TZ", "ENV_APPDATA_PATH"} \subseteq DOMAIN cfgData
          /\ cs.envFiles
    /\ MarkedHere => (cs.pc = "done" /\ cs.err = NoErr)

C37_Witness ==
    /\ interactive
    /\ cs.pc = "done"
    /\ cs.err = NoErr
    /\ cs.selected = <<"cloud", "media">>
    /\ MarkedHere
    /\ "NEXTCLOUD_ADMIN_PASSWORD" \in cs.prompts
    /\ "NEXTCLOUD_DB_PASSWORD" \notin cs.prompts
    /\ cfgData["NEXTCLOUD_ADMIN_USER"] = "admin"
    /\ "NEXTCLOUD_TRUSTED_DOMAINS" \notin DOMAIN cfgData
    /\ cs.copied
    /\ cs.envFiles

----------------------------------------------------------------------------
(* Two invocations of the tool, each a process of its own, that call       *)
(* RunStep on the same marker directory at the same time.  Nothing but the *)
(* marker files is shared between them.                                    *)

Racers == {1, 2}

RaceSteps == {"nfs", "container", "deployment"}

InitRace ==
    /\ markers \in {{}, {Legacy1}, {Failed(MarkerName("nfs"))},
                    {MarkerName("nfs"), Failed(MarkerName("nfs"))}}
    /\ dirExists = (markers # {})
    /\ faults = FALSE
    /\ markers0 = markers
    /\ pc = [p \in Procs |-> "idle"]
    /\ arg = [p \in Procs |-> <<>>]
    /\ ret = [p \in Procs |-> NoRet]
    /\ EnsureIdle
    /\ interactive \in BOOLEAN
    /\ run = [p \in Procs |-> NoRun]
    /\ OthersIdle

\* a process is started with the subcommand of one step; it exits when
\* RunStep has returned
RaceInvoke(p) ==
    /\ pc[p] = "idle"
    /\ run[p].kind = "none"
    /\ \E shortName \in RaceSteps :
        run' = [run EXCEPT ![p] =
                   [NoRun EXCEPT !.kind = "RunStep", !.cmd = shortName, !.step = shortName,
                                 !.atCall = markers, !.calls = run[p].calls + 1]]
    /\ pc' = [pc EXCEPT ![p] = "rs_switch"]
    /\ ret' = [ret EXCEPT ![p] = NoRet]
    /\ UNCHANGED <<fsVars, arg, ensureVars, interactive, otherVars>>

NextRace ==
    \E p \in Racers :
        \/ RaceInvoke(p)
        \/ RsSwitch(p)
        \/ RxComplete(p)
        \/ RxPrompt(p)
        \/ RxRemove(p)
        \/ BodyCheck(p)
        \/ EcmCanonical(p)
        \/ EcmLegacy(p)
        \/ EcmMkdir(p)
        \/ EcmOpen(p)
        \/ EcmCleanup(p)
        \/ BodyChecked(p)
        \/ BodyWork(p)
        \/ BodyMark(p)
        \/ RsFail(p)
        \/ RsClear(p)
        \/ RsCreate(p)
        \/ RsReturn(p)

SpecRace == InitRace /\ [][NextRace]_vars

\* C31: of two processes in RunStep for the same step, which was not
\* complete when they started and which neither was asked to run again, at
\* most one executes the step body.
C31_BodyAtMostOnce ==
    \A p, q \in Racers :
        (p # q /\ run[p].step \in ShortNames /\ run[p].step = run[q].step
            /\ MarkerName(run[p].step) \notin markers0
            /\ ~run[p].rerun /\ ~run[q].rerun) =>
                ~(run[p].worked = "ok" /\ run[q].worked = "ok")

\* C32: RunStep removes the failure marker of a step only in an invocation
\* whose step body executed and returned success.
C32_FailureClearedOnlyByRerun ==
    [][\A p \in Racers :
          (pc[p] = "rs_clear" /\ pc'[p] = "rs_create" /\ markers' # markers) =>
              run[p].worked = "ok"]_vars

----------------------------------------------------------------------------
(* The Spinner: goroutines of one process call Start, Stop, Success, Fail  *)
(* and UpdateMessage; every Start that finds the spinner inactive starts   *)
(* an animation goroutine, which prints a frame and the message until it   *)
(* receives on the unbuffered channel done.                                *)

MaxSpinCalls == 3

SpinnerOps == {"Start", "Stop", "Success", "Fail", "UpdateMessage"}

SpinnerTexts == {"m1"}

\* what a read of a string can give while another goroutine writes it
Torn == "torn"

InitSpinner ==
    /\ markers = {}
    /\ dirExists = FALSE
    /\ faults = FALSE
    /\ markers0 = {}
    /\ pc = [p \in Procs |-> "idle"]
    /\ arg = [p \in Procs |-> <<>>]
    /\ ret = [p \in Procs |-> NoRet]
    /\ EnsureIdle
    /\ RunIdle
    /\ LockIdle
    /\ DryIdle
    /\ ledger = {}
    /\ cs = NoSetup
    /\ dep = NoDeploy
    /\ cfgFs = [f \in {"config", "config.tmp"} |-> Absent]
    /\ cfgData = [k \in {} |-> ""]
    /\ cfgPc = "idle"
    /\ cfgCall = NoCall
    /\ cfgSeen = Absent
    /\ cfgCommitted = {Absent}
    /\ sp = NoSpinner

spFrame ==
    <<fsVars, procVars, ensureVars, runVars, cfgVars, lockVars, dryVars, bookVars, csVars,
      depVars>>

\* a goroutine calls a method of the spinner
SpCall(c) ==
    /\ sp.at[c] = "idle"
    /\ sp.calls < MaxSpinCalls
    /\ \E op \in SpinnerOps, text \in SpinnerTexts :
        sp' = [sp EXCEPT !.at[c] = "lock", !.op[c] = op, !.text[c] = text,
                         !.sent[c] = FALSE, !.calls = @ + 1]
    /\ UNCHANGED spFrame

\* Start: under the mutex, return when active, else set active
SpStart(c) ==
    /\ sp.at[c] = "lock"
    /\ sp.op[c] = "Start"
    /\ sp.mu = 0
    /\ sp' = IF sp.active
             THEN [sp EXCEPT !.at[c] = "idle"]
             ELSE [sp EXCEPT !.at[c] = "go", !.active = TRUE, !.starts = @ + 1]
    /\ UNCHANGED spFrame

\* Start: go func() { ... }
SpGo(c) ==
    /\ sp.at[c] = "go"
    /\ sp' = [sp EXCEPT !.at[c] = "idle", !.anim = Append(@, [pc |-> "select"])]
    /\ UNCHANGED spFrame

\* Stop (also from Success and Fail): take the mutex; return when not
\* active, else clear active and send on done with the mutex held
SpStop(c) ==
    /\ sp.at[c] = "lock"
    /\ sp.op[c] \in {"Stop", "Success", "Fail"}
    /\ sp.mu = 0
    /\ sp' = IF ~sp.active
             THEN [sp EXCEPT !.at[c] = IF sp.op[c] = "Stop" THEN "idle" ELSE "report"]
             ELSE [sp EXCEPT !.at[c] = "send", !.active = FALSE, !.mu = c]
    /\ UNCHANGED spFrame

\* Stop: the send has been received; the deferred Unlock
SpUnlock(c) ==
    /\ sp.at[c] = "unlock"
    /\ sp' = [sp EXCEPT !.at[c] = IF sp.op[c] = "Stop" THEN "idle" ELSE "report", !.mu = 0]
    /\ UNCHANGED spFrame

\* Success, Fail: print the final line
SpReport(c) ==
    /\ sp.at[c] = "report"
    /\ sp' = [sp EXCEPT !.at[c] = "idle", !.shown = sp.text[c]]
    /\ UNCHANGED spFrame

\* UpdateMessage: take the mutex
SpUpdateLock(c) ==
    /\ sp.at[c] = "lock"
    /\ sp.op[c] = "UpdateMessage"
    /\ sp.mu = 0
    /\ sp' = [sp EXCEPT !.at[c] = "write", !.mu = c]
    /\ UNCHANGED spFrame

\* UpdateMessage: s.message = message, and the deferred Unlock
SpWrite(c) ==
    /\ sp.at[c] = "write"
    /\ sp' = [sp EXCEPT !.at[c] = "idle", !.message = sp.text[c], !.mu = 0]
    /\ UNCHANGED spFrame

\* animation goroutine: select { case <-s.done: ... return; default: ... }
AnimSelect(g) ==
    /\ g \in 1..Len(sp.anim)
    /\ sp.anim[g].pc = "select"
    /\ IF \E c \in SpCallers : sp.at[c] = "send"
       THEN LET c == CHOOSE c \in SpCallers : sp.at[c] = "send" IN
            sp' = [sp EXCEPT !.anim[g].pc = "exited", !.at[c] = "unlock", !.sent[c] = TRUE,
                             !.sends = @ + 1, !.shown = ""]
       ELSE sp' = [sp EXCEPT !.anim[g].pc = "print"]
    /\ UNCHANGED spFrame

\* animation goroutine: fmt.Printf of the next frame and s.message, Sleep
AnimPrintLocked(g) ==
    /\ g \in 1..Len(sp.anim)
    /\ sp.anim[g].pc = "print"
    /\ sp.mu = 0
    /\ sp' = [sp EXCEPT !.anim[g].pc = "select", !.shown = sp.message]
    /\ UNCHANGED spFrame

AnimPrint(g) ==
    /\ g \in 1..Len(sp.anim)
    /\ sp.anim[g].pc = "print"
    /\ \E read \in {sp.message} \cup
                   UNION {{sp.text[c], Torn} : c \in {w \in SpCallers : sp.at[w] = "write"}} :
        sp' = [sp EXCEPT !.anim[g].pc = "select", !.shown = read]
    /\ UNCHANGED spFrame

SpStep(c) ==
    \/ SpStart(c)
    \/ SpGo(c)
    \/ SpStop(c)
    \/ SpUnlock(c)
    \/ SpReport(c)
    \/ SpUpdateLock(c)
    \/ SpWrite(c)

AnimStep(g) == AnimSelect(g) \/ AnimPrint(g)

NextSpinner ==
    \/ \E c \in SpCallers : SpCall(c) \/ SpStep(c)
    \/ \E g \in 1..MaxSpinCalls : AnimStep(g)

SpecSpinner == InitSpinner /\ [][NextSpinner]_vars

\* the Go scheduler runs every goroutine that can take a step
SpecSpinnerLive ==
    /\ SpecSpinner
    /\ \A c \in SpCallers : WF_vars(SpStep(c))
    /\ \A g \in 1..MaxSpinCalls : WF_vars(AnimStep(g))

Exited == {g \in 1..Len(sp.anim) : sp.anim[g].pc = "exited"}

\* C35: every call of the spinner returns; Stop sends on done only to end
\* an animation that a Start began and no Stop has ended yet, so never
\* without a Start before it nor twice for one Start; and every send of a
\* Stop is received by an animation goroutine, which then terminates.
C35_SpinnerLiveness ==
    /\ \A c \in SpCallers : (sp.at[c] # "idle") ~> (sp.at[c] = "idle")
    /\ [](sp.sends + Cardinality({c \in SpCallers : sp.at[c] = "send"})
            + (IF sp.active THEN 1 ELSE 0) = sp.starts)
    /\ [](Cardinality(Exited) = sp.sends)
    /\ \A g \in 1..MaxSpinCalls :
          (g \in 1..Len(sp.anim) /\ ~sp.active) ~> (g \in Exited)

C35_Witness ==
    /\ sp.calls = MaxSpinCalls
    /\ \A c \in SpCallers : sp.at[c] = "idle"
    /\ sp.sends = 1
    /\ Cardinality(Exited) = 1
    /\ sp.op[1] = "Stop"
    /\ ~sp.sent[1]
    /\ sp.op[2] = "Fail"
    /\ sp.sent[2]

\* C36: the animation goroutine never reads s.message while a caller is
\* about to write it with nothing ordering the two accesses (the goroutine
\* takes no mutex and the channel is used by Stop only).
C36_NoUnorderedAccess ==
    ~\E g \in 1..Len(sp.anim), c \in SpCallers :
        sp.anim[g].pc = "print" /\ sp.at[c] = "write"

----------------------------------------------------------------------------
(* RunDeployment: the deployment step body, one process, on the marker     *)
(* directory and a loaded or unreadable configuration.                     *)

deploymentCompletionMarker == <<"service-deployment-complete">>

\* a text as the runs of characters the functions below tell apart: a
\* blank, a path separator, a dot, or a run of other characters
Runes(text) ==
    CASE text = "" -> <<>>
      [] text = " " -> <<" ">>
      [] text = "cloud" -> <<"cloud">>
      [] text = "cloud web" -> <<"cloud", " ", "web">>
      [] text = " web  cloud" -> <<" ", "web", " ", " ", "cloud">>
      [] text = "/mnt/nas" -> <<"/", "mnt", "/", "nas">>
      [] text = " /data//media/ " -> <<" ", "/", "data", "/", "/", "media", "/", " ">>
      [] text = "/" -> <<"/">>
      [] OTHER -> <<text>>

\* strings.Fields: the runs between blanks
Fields(runes) == SelectSeq(runes, LAMBDA r : r # " ")

\* strings.TrimSpace
RECURSIVE TrimSpace(_)
TrimSpace(runes) ==
    IF runes = <<>> THEN <<>>
    ELSE IF Head(runes) = " " THEN TrimSpace(Tail(runes))
    ELSE IF runes[Len(runes)] = " " THEN TrimSpace(SubSeq(runes, 1, Len(runes) - 1))
    ELSE runes

\* filepath.Clean, the elements it keeps: empty and "." elements go, ".."
\* takes the element before it with it (at the root it just goes)
RECURSIVE CleanElements(_, _, _)
CleanElements(runes, rooted, kept) ==
    IF runes = <<>> THEN kept
    ELSE LET r == Head(runes) IN
         IF r \in {"/", "."} THEN CleanElements(Tail(runes), rooted, kept)
         ELSE IF r # ".." THEN CleanElements(Tail(runes), rooted, Append(kept, r))
         ELSE IF kept # <<>> /\ kept[Len(kept)] # ".."
              THEN CleanElements(Tail(runes), rooted, SubSeq(kept, 1, Len(kept) - 1))
         ELSE IF rooted THEN CleanElements(Tail(runes), rooted, kept)
         ELSE CleanElements(Tail(runes), rooted, Append(kept, r))

RECURSIVE Separated(_)
Separated(elements) ==
    IF Len(elements) <= 1 THEN elements
    ELSE <<Head(elements), "/">> \o Separated(Tail(elements))

\* filepath.Clean
Clean(runes) ==
    LET rooted == runes # <<>> /\ Head(runes) = "/"
        kept == CleanElements(runes, rooted, <<>>)
    IN  IF kept = <<>> THEN (IF rooted THEN <<"/">> ELSE <<".">>)
        ELSE (IF rooted THEN <<"/">> ELSE <<>>) \o Separated(kept)

\* mountPointToUnitName: the automount unit of a mount point
mountPointToUnitName(mountPoint) ==
    LET cleanedPath == Clean(TrimSpace(Runes(mountPoint)))
        trimmed == IF Head(cleanedPath) = "/" THEN Tail(cleanedPath) ELSE cleanedPath
        baseName == [i \in 1..Len(trimmed) |-> IF trimmed[i] = "/" THEN "-" ELSE trimmed[i]]
    IN  baseName \o <<".automount">>

\* getServiceInfo: Directory
ServiceDirectory(data, loaded, serviceName) ==
    <<GetOrDefault(data, loaded, "CONTAINERS_BASE", "/srv/containers"), "/", serviceName>>

NoUnit == [wants |-> <<>>, after |-> <<>>, mounts |-> <<>>]

\* createComposeService: the Wants=, After= and RequiresMountsFor= lists of
\* the unit it writes
ComposeUnit(data, loaded, serviceName) ==
    LET directory == ServiceDirectory(data, loaded, serviceName)
        nfsMountPoint == GetOrDefault(data, loaded, "NFS_MOUNT_POINT", "")
    IN  IF nfsMountPoint # ""
        THEN [wants |-> <<"network-online.target", mountPointToUnitName(nfsMountPoint)>>,
              after |-> <<"network-online.target", mountPointToUnitName(nfsMountPoint)>>,
              mounts |-> <<directory, nfsMountPoint>>]
        ELSE [wants |-> <<"network-online.target">>,
              after |-> <<"network-online.target">>,
              mounts |-> <<directory>>]

\* createComposeService: the error it returns and the unit it has written;
\* compose is the outcome of GetComposeCommand, io that of WriteFile
createComposeService(data, loaded, serviceName, compose, io) ==
    IF GetOrDefault(data, loaded, "CONTAINER_RUNTIME", "podman") \notin {"podman", "docker"}
    THEN [err |-> "unsupported container runtime", unit |-> NoUnit]
    ELSE IF compose # "ok" THEN [err |-> "failed to get compose command", unit |-> NoUnit]
    ELSE IF io # "ok" THEN [err |-> "failed to write service file", unit |-> NoUnit]
    ELSE [err |-> NoError, unit |-> ComposeUnit(data, loaded, serviceName)]

\* deployService: check is the outcome of checkExistingService ("exists",
\* "absent" or "error"), start that of enableAndStartService; failures of
\* pullImages and verifyContainers are warnings
deployService(data, loaded, serviceName, check, compose, io, start) ==
    LET exists == check = "exists"
        made == createComposeService(data, loaded, serviceName, compose, io)
    IN  IF ~exists /\ made.err # NoError
        THEN [service |-> serviceName, err |-> "failed to create service",
              created |-> FALSE, unit |-> NoUnit, started |-> FALSE]
        ELSE IF start # "ok"
        THEN [service |-> serviceName, err |-> "failed to enable/start service",
              created |-> ~exists, unit |-> IF exists THEN NoUnit ELSE made.unit,
              started |-> FALSE]
        ELSE [service |-> serviceName, err |-> NoError,
              created |-> ~exists, unit |-> IF exists THEN NoUnit ELSE made.unit,
              started |-> TRUE]

\* getSelectedServices
getSelectedServices(data, loaded) ==
    LET selectedStr == GetOrDefault(data, loaded, "SELECTED_SERVICES", "") IN
    IF selectedStr = ""
    THEN [val |-> <<>>, err |-> "no services selected (run container setup first)"]
    ELSE [val |-> Fields(Runes(selectedStr)), err |-> NoError]

\* the configurations RunDeployment is started on
DeployMaps ==
    UNION {[ks -> {"", " ", "cloud", "cloud web", " web  cloud", " /data//media/ ", "lxc"}] :
              ks \in SUBSET {"SELECTED_SERVICES", "NFS_MOUNT_POINT", "CONTAINER_RUNTIME"}}

DeployConfigs ==
    {d \in DeployMaps :
        /\ "SELECTED_SERVICES" \in DOMAIN d =>
               d["SELECTED_SERVICES"] \in {"", " ", "cloud", "cloud web", " web  cloud"}
        /\ "NFS_MOUNT_POINT" \in DOMAIN d => d["NFS_MOUNT_POINT"] \in {"", " /data//media/ "}
        /\ "CONTAINER_RUNTIME" \in DOMAIN d => d["CONTAINER_RUNTIME"] = "lxc"}

InitDeploy ==
    /\ markers \in {{}, {deploymentCompletionMarker}, {Legacy1}}
    /\ dirExists = (markers # {})
    /\ faults \in BOOLEAN
    /\ markers0 = markers
    /\ pc = [p \in Procs |-> "idle"]
    /\ arg = [p \in Procs |-> [canonical |-> deploymentCompletionMarker, legacy |-> <<Legacy1>>]]
    /\ ret = [p \in Procs |-> NoRet]
    /\ EnsureIdle
    /\ RunIdle
    /\ DryIdle
    /\ LaterIdle
    /\ mu = Unlocked
    /\ gor = [p \in Procs |-> NoGo]
    /\ stLoaded \in BOOLEAN
    /\ stCalls = 0
    /\ cfgData \in DeployConfigs
    /\ cfgFs = [f \in {"config", "config.tmp"} |-> Absent]
    /\ cfgSeen = Absent
    /\ cfgCommitted = {Absent}
    /\ cfgPc = "idle"
    /\ cfgCall = NoCall

depFrame ==
    <<faults, ret, results, after, removals, runVars, cfgVars, lockVars, dryVars, bookVars,
      csVars, spVars>>

\* RunDeployment returns err
DepDone(err) == dep' = [dep EXCEPT !.pc = "done", !.err = err]

\* RunDeployment: call ensureCanonicalMarker
DepRun ==
    /\ dep.pc \in {"idle", "done"}
    /\ pc[Client] = "idle"
    /\ dep.calls < MaxRuns
    /\ dep' = [NoDeploy EXCEPT !.pc = "ensure", !.calls = dep.calls + 1]
    /\ markers0' = markers
    /\ pc' = [pc EXCEPT ![Client] = "ecm_canonical"]
    /\ arg' = [arg EXCEPT ![Client] = [canonical |-> deploymentCompletionMarker,
                                       legacy |-> <<Legacy1>>]]
    /\ idx' = [idx EXCEPT ![Client] = 0]
    /\ wasCreated' = [wasCreated EXCEPT ![Client] = FALSE]
    /\ UNCHANGED <<markers, dirExists, depFrame>>

\* RunDeployment: ensureCanonicalMarker has returned
DepChecked ==
    /\ dep.pc = "ensure"
    /\ pc[Client] = "idle"
    /\ IF ret[Client].err # NoError THEN DepDone(Err("failed to check marker"))
       ELSE IF ret[Client].val THEN DepDone(NoErr)
       ELSE dep' = [dep EXCEPT !.pc = "select"]
    /\ UNCHANGED <<fsVars, pc, arg, idx, wasCreated, depFrame>>

\* RunDeployment: getSelectedServices
DepSelect ==
    /\ dep.pc = "select"
    /\ LET r == getSelectedServices(cfgData, stLoaded) IN
       IF r.err # NoError THEN DepDone(Err("failed to get selected services"))
       ELSE dep' = [dep EXCEPT !.pc = "deploy", !.services = r.val, !.i = 1]
    /\ UNCHANGED <<fsVars, pc, arg, idx, wasCreated, depFrame>>

\* RunDeployment: one iteration of the loop over the selected services; a
\* failure is reported and the loop goes on
DepDeployAbort ==
    /\ dep.pc = "deploy"
    /\ dep.i <= Len(dep.services)
    /\ \E check \in {"exists", "absent", "error"}, compose \in {"ok", "fail"},
          io \in {"ok", "eio"}, start \in {"ok", "fail"} :
        LET r == deployService(cfgData, stLoaded, dep.services[dep.i], check, compose, io, start) IN
        dep' = [dep EXCEPT !.attempted = Append(@, dep.services[dep.i]),
                           !.deployed = Append(@, r),
                           !.i = IF r.err # NoError THEN Len(dep.services) + 1 ELSE @ + 1]
    /\ UNCHANGED <<fsVars, pc, arg, idx, wasCreated, depFrame>>

DepDeploy ==
    /\ dep.pc = "deploy"
    /\ dep.i <= Len(dep.services)
    /\ \E check \in {"exists", "absent", "error"}, compose \in {"ok", "fail"},
          io \in {"ok", "eio"}, start \in {"ok", "fail"} :
        LET r == deployService(cfgData, stLoaded, dep.services[dep.i], check, compose, io, start) IN
        dep' = [dep EXCEPT !.attempted = Append(@, dep.services[dep.i]),
                           !.deployed = Append(@, r),
                           !.i = @ + 1]
    /\ UNCHANGED <<fsVars, pc, arg, idx, wasCreated, depFrame>>

\* RunDeployment: after the loop, create the completion marker
DepMark ==
    /\ dep.pc = "deploy"
    /\ dep.i > Len(dep.services)
    /\ \E io \in IOOutcomes :
        LET r == Create(markers, dirExists, deploymentCompletionMarker, io) IN
        /\ markers' = r.m
        /\ dirExists' = r.d
        /\ IF r.err # NoError THEN DepDone(Err("failed to create completion marker"))
           ELSE dep' = [dep EXCEPT !.pc = "done", !.marked = TRUE]
    /\ UNCHANGED <<faults, markers0, pc, arg, idx, wasCreated, depFrame>>

NextDeploy ==
    \/ DepRun
    \/ EcmCanonical(Client)
    \/ EcmLegacy(Client)
    \/ EcmMkdir(Client)
    \/ EcmOpen(Client)
    \/ EcmCleanup(Client)
    \/ DepChecked
    \/ DepSelect
    \/ DepDeploy
    \/ DepMark

SpecDeploy == InitDeploy /\ [][NextDeploy]_vars

\* RunDeployment has returned
DepReturned == dep.pc = "done"

\* the call of RunDeployment in progress began with a completion marker, the
\* canonical one or its legacy alias, in place
DeployedBefore == deploymentCompletionMarker \in markers0 \/ Legacy1 \in markers0

\* SELECTED_SERVICES as the call reads it
SelectedStr == GetOrDefault(cfgData, stLoaded, "SELECTED_SERVICES", "")

C39_NfsOnlyWhenConfigured ==
    \A n \in 1..Len(dep.deployed) :
        (dep.deployed[n].unit # NoUnit /\ "NFS_MOUNT_POINT" \notin DOMAIN cfgData) =>
            dep.deployed[n].unit =
                [wants |-> <<"network-online.target">>,
                 after |-> <<"network-online.target">>,
                 mounts |-> <<ServiceDirectory(cfgData, stLoaded, dep.deployed[n].service)>>]

====
